---- MODULE Spec2Model ----
(***************************************************************************)
(* Projectile / spell lifecycle of the agent8 templates.                   *)
(*                                                                         *)
(* Groups of React components are modelled, each as its own state machine *)
(* over its own variables:                                                 *)
(*   magic, mprops   tps  magic/core/ProjectileMagic.tsx                   *)
(*   fb              freeview spells/FireBall.tsx + FireballManager        *)
(*   proj, world     freeview r3f/Projectile.tsx + ProjectileSystem.tsx    *)
(*   bp              tps components/projectile BaseProjectile +            *)
(*                   ProjectileSystem                                      *)
(*   fx              freeview example/fireball: effectStore,               *)
(*                   EffectContainer, FireBallEffectController, FireBall   *)
(*   tb              tps projectiles/BaseProjectile.tsx                    *)
(*   ps              tps ProjectileSystem: its projectiles list with       *)
(*                   several projectiles in flight                         *)
(*   kin             freeview kinematic FireBall (spawn and movement)      *)
(*   bullet          example/fireball guide: Bullet                        *)
(*   weff            tps World: its list of hit and explosion effects,     *)
(*                   FireBallEffect and ShaderEffect                       *)
(*   cfg             example/fireball: a spawn config on its way through   *)
(*                   createFireBallEffectConfig and parseConfig            *)
(*   met             tps magic/spells/Meteor.tsx and its ProjectileMagic   *)
(*   launch          freeview ProjectileControls, and the times at which   *)
(*                   it or the FireballManager spawned                     *)
(* React state is modelled as a committed value (what closures and the     *)
(* rendered tree see) plus a pending update that a later render commits;   *)
(* refs are plain fields that change at once.                              *)
(***************************************************************************)
EXTENDS Integers, Sequences, FiniteSets, TLC

VARIABLES magic, mprops, fb, proj, world, bp, fx, tb, ps, kin, cfg, bullet, weff, met, launch

vars == <<magic, mprops, fb, proj, world, bp, fx, tb, ps, kin, cfg, bullet, weff, met, launch>>

(***************************************************************************)
(* Bounds of the model.                                                    *)
(***************************************************************************)
MaxClock == 3
MaxEvents == 2
MaxHits == 3
MaxComplete == 2
MaxBounce == 1
MaxActivate == 1

(***************************************************************************)
(* ProjectileMagic (tps).                                                  *)
(***************************************************************************)
Targets == {"t1", "t2"}
Kinds == {"collision", "intersection"}
Events == Kinds \X Targets
Deltas == {1, 2}

RECURSIVE SeqsUpTo(_, _)
SeqsUpTo(S, n) ==
  IF n = 0 THEN {<<>>}
  ELSE LET shorter == SeqsUpTo(S, n - 1)
       IN shorter \cup {Append(q, e) : q \in {r \in shorter : Len(r) = n - 1}, e \in S}

ISqrt(n) == CHOOSE r \in 0..n : r * r <= n /\ n < (r + 1) * (r + 1)

SqLen(v) == v[1] * v[1] + v[2] * v[2] + v[3] * v[3]

\* a number or vector that is not made of integers: the model has no value
\* for it
OffGrid == <<"off grid">>

\* the vectors whose length is an integer
OnGrid(v) == v # OffGrid /\ ISqrt(SqLen(v)) * ISqrt(SqLen(v)) = SqLen(v)

\* Math.sqrt(x ** 2 + y ** 2 + z ** 2)
Speed(v) == IF OnGrid(v) THEN ISqrt(SqLen(v)) ELSE OffGrid

\* direction.normalize() * velocity, as set by setupInitialVelocity
InitVels == {<<0, 0, 1>>, <<2, 1, 2>>}

\* the same for the projectiles that home: they fly along the z axis
HomingVels == {<<0, 0, 1>>, <<0, 0, 4>>}

\* homingStrength in twentieths: 0, 0.05 and 0.1 (the default)
HomingStrengths == {0, 1, 2}

\* normalize(targetPos - currentPosition), for targets on the line of flight,
\* ahead of and behind the projectile: with these every velocity a homing
\* frame reads or writes is made of integers
TargetDirs == {<<0, 0, 1>>, <<0, 0, -1>>}

ZeroVel == <<0, 0, 0>>

MagicProps ==
  [piercing : BOOLEAN, bouncing : BOOLEAN, bounceCount : 0..MaxBounce,
   maxDistance : {0, 3}, duration : {2}, initVel : InitVels,
   homing : {FALSE}, homingTarget : {FALSE}, homingStrength : {2}]

\* the props of the projectiles that home
HomingProps ==
  [piercing : {FALSE}, bouncing : BOOLEAN, bounceCount : {MaxBounce},
   maxDistance : {0, 3}, duration : {2}, initVel : HomingVels,
   homing : {TRUE}, homingTarget : BOOLEAN, homingStrength : HomingStrengths]

NoTick == [delivered |-> 0, onHit |-> 0, homed |-> FALSE, threw |-> FALSE]

\* the component after its first render and its init effect: onCast has
\* been called once and the lifespan timer was armed at clock 0
MagicStart(p) ==
  [mounted |-> TRUE, active |-> TRUE, pending |-> "none", activeRef |-> TRUE,
   body |-> TRUE, enabled |-> TRUE, vel |-> p.initVel,
   bounceCountRef |-> 0, dist |-> 0, clock |-> 0,
   timer |-> IF p.duration # 0 THEN "armed" ELSE "none",
   hits |-> [t \in Targets |-> 0], nHit |-> 0, nComplete |-> 0,
   nConsumed |-> 0, nByDistance |-> 0, nByTimer |-> 0, nByHandle |-> 0,
   nActivate |-> 0, tick |-> NoTick, nCast |-> 1, armedAt |-> 0]

MagicInit ==
  /\ mprops \in MagicProps
  /\ magic = MagicStart(mprops)

\* onHit?.(collidedBody, collisionPoint)
OnHit(s, t) ==
  [s EXCEPT !.hits[t] = @ + 1, !.nHit = @ + 1]

\* deactivateProjectile: the guard reads the ref, which only the [active]
\* effect of a later render writes
DeactivateProjectile(s) ==
  IF ~s.activeRef THEN s
  ELSE [s EXCEPT !.pending = "false",
                 !.enabled = IF s.body THEN FALSE ELSE @,
                 !.nComplete = @ + 1]

\* deactivateProjectile called by the maxDistance check, by the lifespan
\* timer and through the handle; the counters tell the completions apart
DeactivateByDistance(s) ==
  LET d == DeactivateProjectile(s)
  IN [d EXCEPT !.nByDistance = @ + (d.nComplete - s.nComplete)]

DeactivateByTimer(s) ==
  LET d == DeactivateProjectile(s)
  IN [d EXCEPT !.nByTimer = @ + (d.nComplete - s.nComplete)]

DeactivateByHandle(s) ==
  LET d == DeactivateProjectile(s)
  IN [d EXCEPT !.nByHandle = @ + (d.nComplete - s.nComplete)]

\* the bounce branch: bounceCountRef.current++, setLinvel({-x, y, -z}), onHit
Bounce(s, t) ==
  LET b == [s EXCEPT !.bounceCountRef = @ + 1,
                     !.vel = IF s.body /\ s.vel # OffGrid
                             THEN <<-s.vel[1], s.vel[2], -s.vel[3]>> ELSE @]
  IN OnHit(b, t)

\* handleCollision, the handler of onCollisionEnter and onIntersectionEnter
HandleCollision(s, p, ev) ==
  LET t == ev[2] IN
  IF ~s.activeRef THEN s
  ELSE IF p.piercing THEN OnHit(s, t)
  ELSE IF p.bouncing /\ s.bounceCountRef < p.bounceCount THEN Bounce(s, t)
  ELSE LET h == OnHit(s, t)
           d == DeactivateProjectile(h)
       IN [d EXCEPT !.nConsumed = @ + (d.nComplete - h.nComplete)]

\* the physics step drains its event queue: every queued event of the step
\* reaches the handler before React renders
RECURSIVE DrainEvents(_, _, _)
DrainEvents(s, p, evs) ==
  IF evs = <<>> THEN s
  ELSE DrainEvents(HandleCollision(s, p, Head(evs)), p, Tail(evs))

MagicBounded(s) ==
  /\ s.nHit <= MaxHits
  /\ s.nComplete <= MaxComplete
  /\ s.clock <= MaxClock

Others == <<fb, proj, world, bp, fx, tb, ps, kin, cfg, bullet, weff, met, launch>>

\* one physics step delivering evs to the RigidBody's handlers
MagicPhysicsStep ==
  \E evs \in SeqsUpTo(Events, MaxEvents) :
    /\ magic.body /\ magic.enabled
    /\ LET s == DrainEvents(magic, mprops, evs)
       IN /\ magic' = [s EXCEPT !.tick = [delivered |-> Len(evs),
                                          onHit |-> s.nHit - magic.nHit,
                                          homed |-> FALSE, threw |-> FALSE]]
          /\ MagicBounded(magic')
    /\ UNCHANGED <<mprops, Others>>

\* handleCollision when the onHit callback throws: nothing after the call
\* of onHit runs (there is no try around it)
HandleCollisionThrowing(s, p, ev) ==
  LET t == ev[2] IN
  IF ~s.activeRef THEN s
  ELSE IF p.piercing THEN OnHit(s, t)
  ELSE IF p.bouncing /\ s.bounceCountRef < p.bounceCount THEN Bounce(s, t)
  ELSE OnHit(s, t)

\* a physics step in which the onHit called for event k of evs throws; the
\* exception leaves the handler and either ends the delivery of the step's
\* events or is caught around the handler (goOn)
DrainThrowing(s, p, evs, k, goOn) ==
  LET before == DrainEvents(s, p, SubSeq(evs, 1, k - 1))
      at == HandleCollisionThrowing(before, p, evs[k])
  IN IF goOn THEN DrainEvents(at, p, SubSeq(evs, k + 1, Len(evs))) ELSE at

MagicPhysicsStepThrowing ==
  \E evs \in SeqsUpTo(Events, MaxEvents) \ {<<>>}, goOn \in BOOLEAN :
    \E k \in 1..Len(evs) :
      /\ magic.body /\ magic.enabled
      /\ DrainEvents(magic, mprops, SubSeq(evs, 1, k - 1)).activeRef
      /\ LET s == DrainThrowing(magic, mprops, evs, k, goOn)
         IN /\ magic' = [s EXCEPT !.tick = [delivered |-> IF goOn THEN Len(evs) ELSE k,
                                            onHit |-> s.nHit - magic.nHit,
                                            homed |-> FALSE, threw |-> TRUE]]
            /\ MagicBounded(magic')
      /\ UNCHANGED <<mprops, Others>>

\* the homing block runs: homing && homingTarget && homingStrength > 0
Homes(p) == p.homing /\ p.homingTarget /\ p.homingStrength > 0

\* the homing block of useFrame.  lerp(v/|v|, tdir, alpha) * |v| is
\* ((1 - alpha) * v + alpha * |v| * tdir) with alpha = homingStrength *
\* delta * 10 = (p.homingStrength * delta) / 2; the direction is not
\* normalized again.  The result is a value of the model when |v| and the
\* three components are integers
HomingStep(s, p, delta, tdir) ==
  IF ~Homes(p) THEN s
  ELSE LET a == p.homingStrength * delta
           twice(i) == (2 - a) * s.vel[i] + a * Speed(s.vel) * tdir[i]
           exact == OnGrid(s.vel) /\ (\A i \in 1..3 : twice(i) % 2 = 0)
       IN [s EXCEPT !.vel = IF exact
                             THEN <<twice(1) \div 2, twice(2) \div 2, twice(3) \div 2>>
                             ELSE OffGrid,
                    !.tick.homed = TRUE]

\* useFrame: the maxDistance check, then the homing block (gravity is 0, its
\* default); an unmounted component has no frame callback, only time passes
MagicFrameStep(s, p, delta, tdir) ==
  LET c == [s EXCEPT !.clock = @ + delta, !.tick = NoTick] IN
  IF ~s.mounted \/ ~s.activeRef \/ ~s.body THEN c
  ELSE IF p.maxDistance # 0
       THEN LET m == [c EXCEPT !.dist = @ + Speed(s.vel) * delta]
            IN IF m.dist >= p.maxDistance THEN DeactivateByDistance(m)
               ELSE HomingStep(m, p, delta, tdir)
       ELSE HomingStep(c, p, delta, tdir)

MagicFrame ==
  \E delta \in Deltas, tdir \in TargetDirs :
    /\ magic' = MagicFrameStep(magic, mprops, delta, tdir)
    /\ MagicBounded(magic')
    /\ UNCHANGED <<mprops, Others>>

\* setTimeout(deactivateProjectile, duration) expiring, not before its delay
MagicTimerFire ==
  /\ magic.timer = "armed"
  /\ magic.clock - magic.armedAt >= mprops.duration
  /\ magic' = [DeactivateByTimer(magic) EXCEPT !.timer = "fired", !.tick = NoTick]
  /\ MagicBounded(magic')
  /\ UNCHANGED <<mprops, Others>>

\* handle.deactivate()
MagicHandleDeactivate ==
  /\ magic.mounted
  /\ magic' = [DeactivateByHandle(magic) EXCEPT !.tick = NoTick]
  /\ MagicBounded(magic')
  /\ UNCHANGED <<mprops, Others>>

\* handle.activate(): setActive(true)
MagicHandleActivate ==
  /\ magic.mounted
  /\ magic.nActivate < MaxActivate
  /\ magic' = [magic EXCEPT !.pending = "true", !.nActivate = @ + 1, !.tick = NoTick]
  /\ UNCHANGED <<mprops, Others>>

\* React commits the pending setActive: the [active] effect copies it into
\* activeRef, and the RigidBody is mounted exactly while active
MagicCommit(s) ==
  LET a == (s.pending = "true") IN
  IF a = s.active THEN [s EXCEPT !.pending = "none", !.tick = NoTick]
  ELSE [s EXCEPT !.pending = "none", !.active = a, !.activeRef = a,
                 !.body = a, !.enabled = a, !.vel = ZeroVel, !.tick = NoTick]

MagicRender ==
  /\ magic.pending # "none"
  /\ magic' = MagicCommit(magic)
  /\ UNCHANGED <<mprops, Others>>

\* an unmount that leaves the lifespan timer running
MagicUnmountKeepTimer(s) ==
  [s EXCEPT !.mounted = FALSE, !.body = FALSE, !.enabled = FALSE,
            !.pending = "none", !.tick = NoTick]

\* the owner unmounts the component: the cleanup of the init effect clears
\* the timeout, the RigidBody leaves the physics world, the frame callback
\* is unsubscribed, the handle ref is null and queued state updates are
\* dropped
MagicUnmountStep(s) ==
  [s EXCEPT !.mounted = FALSE, !.body = FALSE, !.enabled = FALSE,
            !.pending = "none", !.tick = NoTick,
            !.timer = IF @ = "armed" THEN "cleared" ELSE @]

MagicUnmount ==
  /\ magic.mounted
  /\ magic' = MagicUnmountStep(magic)
  /\ UNCHANGED <<mprops, Others>>

MaxCast == 3
CallbackProps == {"onCast", "onHit", "onComplete"}

\* the init effect run again: its cleanup clears the timeout, then onCast,
\* setupInitialVelocity and a new setTimeout(deactivateProjectile, duration)
InitEffectAgain(s, p) ==
  [s EXCEPT !.nCast = @ + 1,
            !.vel = IF s.activeRef /\ s.body THEN p.initVel ELSE @,
            !.timer = IF p.duration # 0 THEN "armed"
                      ELSE IF @ = "armed" THEN "cleared" ELSE @,
            !.armedAt = s.clock]

\* the parent renders again and passes new identities for the callbacks in
\* changed: pending state is committed in the same pass; onComplete is a
\* dependency of deactivateProjectile and so of setupLifespanTimer, onCast
\* is a dependency of the init effect, onHit only of handleCollision
MagicParentRenderStep(s, p, changed) ==
  LET c == IF s.pending = "none" THEN [s EXCEPT !.tick = NoTick]
           ELSE MagicCommit(s)
  IN IF changed \cap {"onCast", "onComplete"} # {}
     THEN InitEffectAgain(c, p)
     ELSE c

MagicParentRender ==
  \E changed \in SUBSET CallbackProps :
    /\ magic.mounted
    /\ magic.nCast < MaxCast
    /\ magic' = MagicParentRenderStep(magic, mprops, changed)
    /\ UNCHANGED <<mprops, Others>>

MagicNext ==
  \/ MagicUnmount
  \/ MagicPhysicsStep
  \/ MagicFrame
  \/ MagicTimerFire
  \/ MagicHandleDeactivate
  \/ MagicHandleActivate
  \/ MagicRender

(***************************************************************************)
(* FireBall and FireballManager (freeview spells).  Time is counted in     *)
(* seconds.                                                                *)
(***************************************************************************)
MaxFireballs == 2
MaxNow == 9

COOLDOWN_MS == 2
FIREBALL_DURATION == 3

FbIds == 0..(MaxFireballs - 1)

\* a FireBall that is not mounted
FbNone ==
  [mounted |-> FALSE, active |-> FALSE, pending |-> FALSE, rigid |-> FALSE,
   armed |-> FALSE, deadline |-> 0, closureActive |-> FALSE,
   showExplosion |-> FALSE, timedOut |-> FALSE, intersected |-> FALSE,
   nComplete |-> 0]

\* Date.now() is far past the first cooldown when the manager mounts
\* fireballs is the rendered list, updates the updaters queued with
\* setFireballs since the last render
FbInit ==
  fb = [fireballs |-> <<>>, updates |-> <<>>, nextId |-> 0, lastCastTime |-> 0,
        now |-> COOLDOWN_MS, ball |-> [i \in FbIds |-> FbNone]]

FbOthers == <<magic, mprops, proj, world, bp, fx, tb, ps, kin, cfg, bullet, weff, met, launch>>

InSeq(x, q) == \E i \in 1..Len(q) : q[i] = x

RECURSIVE FilterOut(_, _)
\* prev.filter((fireball) => fireball.id !== id)
FilterOut(q, id) ==
  IF q = <<>> THEN <<>>
  ELSE IF Head(q) = id THEN FilterOut(Tail(q), id)
  ELSE <<Head(q)>> \o FilterOut(Tail(q), id)

\* the [duration, onComplete, active] effect: clear the old timeout and set
\* a new one whose callback closes over the rendered value of active
FbArm(b, now) ==
  [b EXCEPT !.armed = TRUE, !.deadline = now + FIREBALL_DURATION,
            !.closureActive = b.active]

\* removeFireball: setFireballs((prev) => prev.filter(...)) is queued
RemoveFireball(f, id) ==
  [f EXCEPT !.updates = Append(@, [op |-> "remove", id |-> id])]

\* onComplete?.() of fireball id, bound by the manager to removeFireball(id)
FbOnComplete(f, id) ==
  RemoveFireball([f EXCEPT !.ball[id].nComplete = @ + 1], id)

RECURSIVE ApplyFbUpdates(_, _)
\* the queued updaters applied in order to the rendered list
ApplyFbUpdates(list, ups) ==
  IF ups = <<>> THEN list
  ELSE ApplyFbUpdates(IF Head(ups).op = "add" THEN Append(list, Head(ups).id)
                      ELSE FilterOut(list, Head(ups).id), Tail(ups))

\* a FireBall renders again: a queued setActive(false) is committed and the
\* RigidBody unmounted; the timeout effect runs again when active changed or
\* when the manager rendered too (onComplete is then a new closure)
FbRerenderBall(b, now, byManager) ==
  LET a == b.active /\ ~b.pending
      n == [b EXCEPT !.pending = FALSE, !.active = a, !.rigid = a]
  IN IF byManager \/ a # b.active THEN FbArm(n, now) ELSE n

\* React renders: the manager when updaters are queued, and with it every
\* FireBall of the new list (one that entered it is mounted, one that left
\* it is unmounted and its timeout cleared); otherwise only the FireBalls
\* with a queued setActive
FbRenderAll(f) ==
  LET list == ApplyFbUpdates(f.fireballs, f.updates)
      byManager == f.updates # <<>>
      ball(i) ==
        LET b == f.ball[i] IN
        IF ~InSeq(i, list)
        THEN IF b.mounted
             THEN [FbNone EXCEPT !.timedOut = b.timedOut,
                                 !.intersected = b.intersected,
                                 !.nComplete = b.nComplete]
             ELSE b
        ELSE IF ~b.mounted
             THEN FbArm([FbNone EXCEPT !.mounted = TRUE, !.active = TRUE,
                                       !.rigid = TRUE, !.nComplete = b.nComplete],
                        f.now)
        ELSE IF byManager \/ b.pending THEN FbRerenderBall(b, f.now, byManager)
        ELSE b
  IN [f EXCEPT !.fireballs = list, !.updates = <<>>,
               !.ball = [i \in FbIds |-> ball(i)]]

\* castFireball: the cooldown check, then the new fireball is queued
CastFireball(f) ==
  IF f.now - f.lastCastTime < COOLDOWN_MS THEN f
  ELSE [f EXCEPT !.nextId = @ + 1,
                 !.updates = Append(@, [op |-> "add", id |-> f.nextId]),
                 !.lastCastTime = f.now]

FbCast ==
  /\ fb.nextId < MaxFireballs
  /\ fb' = CastFireball(fb)
  /\ UNCHANGED FbOthers

\* the setTimeout callback of the duration effect
FbTimeoutStep(f, id) ==
  LET b == f.ball[id]
      g == [f EXCEPT !.ball[id].armed = FALSE]
  IN IF ~b.closureActive THEN g
     ELSE LET h == [g EXCEPT !.ball[id].pending = TRUE, !.ball[id].timedOut = TRUE]
          IN IF b.rigid THEN h ELSE FbOnComplete(h, id)

FbTimeout ==
  \E id \in FbIds :
    /\ fb.ball[id].mounted /\ fb.ball[id].armed
    /\ fb.now >= fb.ball[id].deadline
    /\ fb' = FbTimeoutStep(fb, id)
    /\ UNCHANGED FbOthers

FbRender ==
  /\ fb.updates # <<>> \/ \E id \in FbIds : fb.ball[id].mounted /\ fb.ball[id].pending
  /\ fb' = FbRenderAll(fb)
  /\ UNCHANGED FbOthers

\* handleCollision: on an accepted hit setActive(false) and, the RigidBody
\* being there to give the hit position, setShowExplosion(true).  No element
\* of the rendered tree has it as a handler
FbHandleCollision(f, id, accepted) ==
  LET b == f.ball[id] IN
  IF ~b.active \/ ~accepted THEN f
  ELSE LET g == [f EXCEPT !.ball[id].pending = TRUE]
       IN IF b.rigid THEN [g EXCEPT !.ball[id].showExplosion = TRUE]
          ELSE FbOnComplete(g, id)

\* handleExplosionComplete, the onComplete of FireballExplosion, called by
\* its 1000 ms timeout
HandleExplosionComplete(f, id) ==
  FbOnComplete([f EXCEPT !.ball[id].showExplosion = FALSE], id)

\* a physics step in which the sensor of FireBall id enters another body:
\* the RigidBody is rendered without onIntersectionEnter (the prop is
\* commented out), so no handler runs
FbIntersect ==
  \E id \in FbIds :
    /\ fb.ball[id].mounted /\ fb.ball[id].rigid /\ ~fb.ball[id].intersected
    /\ fb' = [fb EXCEPT !.ball[id].intersected = TRUE]
    /\ UNCHANGED FbOthers

\* time passes
FbTick ==
  /\ fb.now < MaxNow
  /\ fb' = [fb EXCEPT !.now = @ + 1]
  /\ UNCHANGED FbOthers

FbNext ==
  \/ FbCast
  \/ FbTimeout
  \/ FbRender
  \/ FbIntersect
  \/ FbTick

(***************************************************************************)
(* Projectile and ProjectileSystem (freeview r3f).  A projectile moves on  *)
(* the line from startPosition to endPosition; a position is its           *)
(* coordinate on that line, startPosition being 0 and endPosition          *)
(* totalDistance.  The colliders of the physics world that match the       *)
(* filter and are not the owner are the coordinates in world.              *)
(***************************************************************************)
MaxSpawn == 2
MaxCoord == 3
MaxCalls == 2

PIds == 0..(MaxSpawn - 1)
Totals == {0, 2, 3}
Speeds == {1, 2}

PNone ==
  [mounted |-> FALSE, total |-> 0, speed |-> 0, active |-> FALSE, pending |-> FALSE,
   group |-> FALSE, pos |-> 0, dist |-> 0, path |-> 0, nHit |-> 0, hitPos |-> -1,
   nComplete |-> 0]

ProjInit ==
  /\ world \in SUBSET (1..MaxCoord)
  /\ proj = [projectiles |-> <<>>, updates |-> <<>>, nextProjectileId |-> 0,
             frameDelta |-> 0, p |-> [i \in PIds |-> PNone]]

ProjOthers == <<magic, mprops, fb, bp, fx, tb, ps, kin, cfg, bullet, weff, met, launch>>

\* spawnProjectile: take an id and queue the functional update that appends
SpawnProjectile(s, total, speed) ==
  [s EXCEPT !.nextProjectileId = @ + 1, !.frameDelta = 0,
            !.updates = Append(@, [op |-> "add", id |-> s.nextProjectileId,
                                   total |-> total, speed |-> speed])]

\* cleanupProjectile: queue the functional update that filters id out
CleanupProjectile(s, id) ==
  [s EXCEPT !.frameDelta = 0,
            !.updates = Append(@, [op |-> "remove", id |-> id,
                                   total |-> 0, speed |-> 0])]

ProjSpawn ==
  \E total \in Totals, speed \in Speeds :
    /\ proj.nextProjectileId < MaxSpawn
    /\ proj' = SpawnProjectile(proj, total, speed)
    /\ UNCHANGED <<world, ProjOthers>>

Abs(n) == IF n < 0 THEN -n ELSE n

\* group.position.copy(to); path is the length of the way the group has
\* gone since it was mounted
MoveTo(b, to) == [b EXCEPT !.pos = to, !.path = @ + Abs(to - b.pos)]

\* removeBall, guarded by the rendered value of active
RemoveBall(b) ==
  IF b.active THEN [b EXCEPT !.pending = TRUE, !.nComplete = @ + 1] ELSE b

\* world.castRay(ray, distance, true, ...): the nearest collider within
\* distance of origin in the direction of flight, -1 when there is none
CastRay(w, origin, distance) ==
  LET seen == {o \in w : origin <= o /\ o - origin <= distance}
  IN IF seen = {} THEN -1
     ELSE (CHOOSE o \in seen : \A q \in seen : o <= q) - origin

\* handleHit: move to ray.pointAt(timeOfImpact), onHit, removeBall
HandleHit(b, origin, toi) ==
  RemoveBall([MoveTo(b, origin + toi) EXCEPT !.nHit = @ + 1, !.hitPos = origin + toi])

\* the useFrame callback of one Projectile
ProjFrameStep(b, w, delta) ==
  IF ~b.mounted \/ ~b.active \/ ~b.group THEN b
  ELSE LET frameTravelDistance == b.speed * delta
           newDistanceTraveled == b.dist + frameTravelDistance
       IN IF newDistanceTraveled >= b.total
          THEN RemoveBall(MoveTo(b, b.total))
          ELSE LET c == [b EXCEPT !.dist = newDistanceTraveled]
                   toi == CastRay(w, b.pos, frameTravelDistance)
               IN IF toi >= 0 THEN HandleHit(c, b.pos, toi)
                  ELSE MoveTo(c, b.pos + frameTravelDistance)

ProjBounded(s) ==
  \A i \in PIds : s.p[i].nComplete <= MaxCalls /\ s.p[i].nHit <= MaxCalls

\* one rendered frame: every mounted Projectile's useFrame runs with delta
ProjFrame ==
  \E delta \in Deltas :
    /\ \E i \in PIds : proj.p[i].mounted
    /\ proj' = [proj EXCEPT !.frameDelta = delta,
                             !.p = [i \in PIds |-> ProjFrameStep(proj.p[i], world, delta)]]
    /\ ProjBounded(proj')
    /\ UNCHANGED <<world, ProjOthers>>

\* the list when every update had been computed from the rendered list:
\* only the last one takes effect
ApplyLastUpdate(list, ups) ==
  IF ups = <<>> THEN list
  ELSE LET u == ups[Len(ups)]
       IN IF u.op = "add" THEN Append(list, u.id) ELSE FilterOut(list, u.id)

RECURSIVE ApplyUpdates(_, _)
\* setProjectiles' queued updaters, applied in order to the list
ApplyUpdates(list, ups) ==
  IF ups = <<>> THEN list
  ELSE LET u == Head(ups)
       IN ApplyUpdates(IF u.op = "add" THEN Append(list, u.id)
                       ELSE FilterOut(list, u.id), Tail(ups))

UpdateOf(ups, id) == CHOOSE k \in 1..Len(ups) : ups[k].op = "add" /\ ups[k].id = id

\* React renders: the list updates are applied, the Projectiles that entered
\* the list are mounted, those that left it are unmounted, and every pending
\* setActive(false) is committed (the component then renders null)
ProjCommit(s) ==
  LET list == ApplyUpdates(s.projectiles, s.updates)
      comp(i) ==
        LET b == s.p[i] IN
        IF ~InSeq(i, list) THEN [PNone EXCEPT !.nHit = b.nHit, !.nComplete = b.nComplete,
                                              !.pos = b.pos, !.hitPos = b.hitPos,
                                              !.dist = b.dist, !.path = b.path,
                                              !.total = b.total]
        ELSE IF ~b.mounted
             THEN LET u == s.updates[UpdateOf(s.updates, i)]
                  IN [PNone EXCEPT !.mounted = TRUE, !.total = u.total,
                                   !.speed = u.speed, !.active = TRUE, !.group = TRUE]
        ELSE IF b.pending
             THEN [b EXCEPT !.pending = FALSE, !.active = FALSE, !.group = FALSE]
        ELSE b
  IN [s EXCEPT !.projectiles = list, !.updates = <<>>, !.frameDelta = 0,
               !.p = [i \in PIds |-> comp(i)]]

ProjRender ==
  /\ proj.updates # <<>> \/ \E i \in PIds : proj.p[i].pending
  /\ proj' = ProjCommit(proj)
  /\ UNCHANGED <<world, ProjOthers>>

ProjNext ==
  \/ ProjSpawn
  \/ ProjFrame
  \/ ProjRender

(***************************************************************************)
(* BaseProjectile and ProjectileSystem (tps components/projectile).  Time  *)
(* is counted in units of 500 ms.                                          *)
(***************************************************************************)
MaxAge == 22
MaxFire == 1

\* Math.max(projectileLifetime, 10000) ms
SweepLifetime == 20

\* cleanupInterval, 1000 ms
CLEANUP_INTERVAL == 2

\* lifetimes of 1 s and 5 s
Lifetimes == {2, 10}

MaxUpdates == 3

\* inList is the rendered projectiles list, updates the updaters queued with
\* setProjectiles since the last render, waited whether a frame has run
\* since they were queued; age is Date.now() - createdAt and frameAt the age
\* at the last frame.  timed tells whether the backup interval is followed
\* on the clock: its callback then runs when the age is due
BpStart ==
  [inList |-> FALSE, nFired |-> 0, mounted |-> FALSE, activeRef |-> FALSE,
   body |-> FALSE, lifetime |-> 0, elapsed |-> 0, age |-> 0, frameAt |-> 0,
   nCollision |-> 0, nLifetimeEnd |-> 0, nSwept |-> 0, updates |-> <<>>,
   waited |-> FALSE, timed |-> FALSE, due |-> 0]

BpInit ==
  bp = BpStart

BpTimedInit ==
  bp = [BpStart EXCEPT !.timed = TRUE]

BpOthers == <<magic, mprops, fb, proj, world, fx, tb, ps, kin, cfg, bullet, weff, met, launch>>

\* fireProjectile: createdAt = Date.now(), the append is queued
FireProjectile(s, lifetime) ==
  [s EXCEPT !.nFired = @ + 1, !.lifetime = lifetime, !.elapsed = 0, !.age = 0,
            !.frameAt = 0, !.nCollision = 0, !.nLifetimeEnd = 0, !.nSwept = 0,
            !.updates = Append(@, [op |-> "add", now |-> 0])]

BpFire ==
  \E lifetime \in Lifetimes :
    /\ ~bp.inList /\ bp.nFired < MaxFire
    /\ bp' = FireProjectile(bp, lifetime)
    /\ UNCHANGED BpOthers

\* removeProjectile: the filter by id is queued
RemoveProjectile(s) ==
  [s EXCEPT !.updates = Append(@, [op |-> "remove", now |-> s.age])]

\* the lifetime useFrame callback
BpLifetimeStep(s, delta) ==
  IF ~s.activeRef THEN s
  ELSE LET e == [s EXCEPT !.elapsed = @ + delta]
       IN IF s.lifetime # 0 /\ e.elapsed >= s.lifetime
          THEN RemoveProjectile([e EXCEPT !.activeRef = FALSE, !.nLifetimeEnd = @ + 1])
          ELSE e

\* a rendered frame, passed the time since the last one; React renders a
\* queued update before a second frame runs, and an interval callback that
\* is due runs before a later frame
BpFrame ==
  \E passed \in Deltas :
    /\ bp.inList \/ bp.updates # <<>>
    /\ ~bp.waited
    /\ bp.age + passed <= MaxAge
    /\ bp.timed => bp.age + passed <= bp.due
    /\ bp' = BpLifetimeStep([bp EXCEPT !.age = @ + passed,
                                       !.frameAt = bp.age + passed,
                                       !.waited = (bp.updates # <<>>)],
                            bp.age + passed - bp.frameAt)
    /\ UNCHANGED BpOthers

\* handleCollision of BaseProjectile: onCollision, then activeRef = false
BpHandleCollision(s) ==
  IF ~s.activeRef THEN s
  ELSE [s EXCEPT !.nCollision = @ + 1, !.activeRef = FALSE]

RECURSIVE BpDrain(_, _)
BpDrain(s, n) == IF n = 0 THEN s ELSE BpDrain(BpHandleCollision(s), n - 1)

\* a physics step delivering n onCollisionEnter events to the RigidBody
BpPhysicsStep ==
  \E n \in 1..MaxEvents :
    /\ bp.mounted /\ bp.body
    /\ bp' = BpDrain(bp, n)
    /\ UNCHANGED BpOthers

\* a mounted BaseProjectile renders again: it renders null when activeRef is
\* false, and its init effect runs again (normalizedDirection is a new
\* object every render): cleanup, then the reset if the RigidBody is there
BpRerenderStep(s) ==
  IF ~s.mounted THEN s
  ELSE IF ~s.activeRef THEN [s EXCEPT !.body = FALSE]
  ELSE [s EXCEPT !.elapsed = 0, !.activeRef = TRUE]

\* the parent of the system renders again
BpRerender ==
  /\ bp.mounted /\ bp.updates = <<>>
  /\ bp' = BpRerenderStep(bp)
  /\ UNCHANGED BpOthers

\* the backup setInterval callback: now = Date.now(), and the filter that
\* keeps the entries younger than the maximum lifetime is queued
BpSweepStep(s) ==
  [s EXCEPT !.updates = Append(@, [op |-> "sweep", now |-> s.age])]

BpSweep ==
  /\ ~bp.timed
  /\ bp.inList \/ bp.updates # <<>>
  /\ Len(bp.updates) < MaxUpdates
  /\ bp' = BpSweepStep(bp)
  /\ UNCHANGED BpOthers

RECURSIVE BpApplyUpdates(_, _)
\* the queued updaters applied in order; l.inList is the list, l.swept the
\* number of entries a sweep filtered out
BpApplyUpdates(l, ups) ==
  IF ups = <<>> THEN l
  ELSE LET u == Head(ups)
           n == IF u.op = "add" THEN [l EXCEPT !.inList = TRUE]
                ELSE IF u.op = "remove" THEN [l EXCEPT !.inList = FALSE]
                ELSE IF l.inList /\ ~(u.now < SweepLifetime)
                     THEN [inList |-> FALSE, swept |-> l.swept + 1]
                ELSE l
       IN BpApplyUpdates(n, Tail(ups))

\* React renders the system: the updaters are applied; a projectile that
\* entered the list is mounted (its init effect finds the RigidBody and sets
\* elapsedTimeRef and activeRef), one that left it is unmounted (the
\* effect's cleanup clears activeRef), one that stays renders again
BpCommit(s) ==
  LET l == BpApplyUpdates([inList |-> s.inList, swept |-> 0], s.updates)
      c == [s EXCEPT !.inList = l.inList, !.nSwept = @ + l.swept,
                     !.updates = <<>>, !.waited = FALSE]
  IN IF l.inList /\ ~s.mounted
     THEN [c EXCEPT !.mounted = TRUE, !.activeRef = TRUE, !.body = TRUE, !.elapsed = 0]
     ELSE IF ~l.inList /\ s.mounted
     THEN [c EXCEPT !.mounted = FALSE, !.activeRef = FALSE, !.body = FALSE]
     ELSE BpRerenderStep(c)

BpRender ==
  /\ bp.updates # <<>>
  /\ bp' = BpCommit(bp)
  /\ UNCHANGED BpOthers

\* no lifetime (0 is falsy), and lifetimes below and above the maximum
\* lifetime of the sweep
LongLifetimes == {0, 2, 10, 24}

\* fireProjectile under a running interval, whose next callback is up to one
\* cleanupInterval away
BpFireLong ==
  \E lifetime \in LongLifetimes, phase \in 1..CLEANUP_INTERVAL :
    /\ bp.timed
    /\ ~bp.inList /\ bp.nFired < MaxFire
    /\ bp' = [FireProjectile(bp, lifetime) EXCEPT !.due = phase]
    /\ UNCHANGED BpOthers

\* the setInterval callback runs when it is due, whether or not a frame ran
\* in the time before it, and is due again one cleanupInterval later
BpInterval ==
  /\ bp.timed /\ bp.nFired > 0
  /\ bp.due <= MaxAge
  /\ Len(bp.updates) < MaxUpdates
  /\ bp' = [BpSweepStep([bp EXCEPT !.age = bp.due])
              EXCEPT !.due = @ + CLEANUP_INTERVAL]
  /\ UNCHANGED BpOthers

\* the system with its interval timer on time
SweepNext ==
  \/ BpFireLong
  \/ BpFrame
  \/ BpInterval
  \/ BpPhysicsStep
  \/ BpRerender
  \/ BpRender

BpNext ==
  \/ BpFire
  \/ BpFrame
  \/ BpPhysicsStep
  \/ BpRerender
  \/ BpSweep
  \/ BpRender

(***************************************************************************)
(* The effect pipeline of example/fireball (README): effectStore,          *)
(* EffectContainer, FireBallEffectController and FireBall.  Time is        *)
(* counted in seconds.                                                     *)
(***************************************************************************)
MaxEffects == 2
MaxElapsed == 3

\* the keys the store issues when it is followed alone
MaxKeys == 3

DEFAULT_SPEED == 10
DEFAULT_DURATION == 2

FxKeys == 0..(MaxEffects - 1)
FxTypes == {"FIREBALL", "OTHER"}

\* the bodies a FireBall can intersect: the caster's (userData.account is
\* the sender) and any other
FxBodies == {"caster", "enemy"}

\* effect configs: a record without a field is a config that lacks it
FxConfigs ==
  {[startPosition |-> <<0, 0, 0>>, direction |-> <<0, 0, 1>>, speed |-> 1, duration |-> 1],
   [startPosition |-> <<0, 0, 0>>, direction |-> <<0, 0, 1>>],
   [direction |-> <<0, 0, 1>>, speed |-> 1, duration |-> 1],
   [startPosition |-> <<0, 0, 0>>, speed |-> 1, duration |-> 1],
   [startPosition |-> <<0, 0, 0>>, direction |-> <<0, 0, 0>>, speed |-> 1, duration |-> 1],
   [startPosition |-> <<0, 0, 0>>, direction |-> <<0, 0, 1>>, speed |-> 0, duration |-> 1],
   [startPosition |-> <<0, 0, 0>>, direction |-> <<0, 0, 1>>, speed |-> -1, duration |-> 1]}

\* new THREE.Vector3(x, y, z)
Vec3(x, y, z) == [x |-> x, y |-> y, z |-> z]

\* a FireBallEffectController that is not in the rendered tree
FxNone ==
  [mounted |-> FALSE, fireball |-> FALSE, destroyed |-> FALSE, pending |-> FALSE,
   elapsed |-> 0, startPosition |-> Vec3(0, 0, 0), direction |-> Vec3(0, 0, 0), speed |-> 0,
   duration |-> 0, nComplete |-> 0, nHit |-> 0, nError |-> 0]

NoCall == [op |-> "none", key |-> -1]

FxInit ==
  fx = [activeEffects |-> <<>>, effectKeyCounter |-> 0, connected |-> FALSE,
        dirty |-> FALSE, ret |-> -1, last |-> NoCall, issued |-> {},
        c |-> [k \in FxKeys |-> FxNone]]

FxOthers == <<magic, mprops, fb, proj, world, bp, tb, ps, kin, cfg, bullet, weff, met, launch>>

HasKey(list, key) == \E i \in 1..Len(list) : list[i].key = key

\* addEffect taking the length of the list as the new key
AddEffectByLength(f, type, config) ==
  LET newKey == Len(f.activeEffects)
      newEffect == [key |-> newKey, sender |-> "player1", type |-> type,
                    config |-> config]
  IN [f EXCEPT !.activeEffects = Append(@, newEffect),
               !.effectKeyCounter = @ + 1,
               !.dirty = TRUE, !.ret = newKey,
               !.last = [op |-> "add", key |-> newKey],
               !.issued = @ \cup {newKey}]

\* addEffect: the new key is the counter read with get(); set() appends the
\* effect and increments the counter; the key is returned
AddEffect(f, type, config) ==
  LET newKey == f.effectKeyCounter
      newEffect == [key |-> newKey, sender |-> "player1", type |-> type,
                    config |-> config]
  IN [f EXCEPT !.activeEffects = Append(@, newEffect),
               !.effectKeyCounter = @ + 1,
               !.dirty = TRUE, !.ret = newKey,
               !.last = [op |-> "add", key |-> newKey],
               !.issued = @ \cup {newKey}]

\* removeEffect dropping the entry at the index the key names
RemoveEffectAtIndex(f, keyToRemove) ==
  LET n == Len(f.activeEffects)
      i == keyToRemove + 1
  IN [f EXCEPT !.activeEffects =
                 IF i \in 1..n THEN SubSeq(@, 1, i - 1) \o SubSeq(@, i + 1, n) ELSE @,
               !.dirty = TRUE,
               !.last = [op |-> "remove", key |-> keyToRemove]]

\* removeEffect: activeEffects.filter((effect) => effect.key !== keyToRemove)
RemoveEffect(f, keyToRemove) ==
  LET keep(effect) == effect.key # keyToRemove
  IN [f EXCEPT !.activeEffects = SelectSeq(@, keep),
               !.dirty = TRUE,
               !.last = [op |-> "remove", key |-> keyToRemove]]

\* (config.speed as number) || DEFAULT: undefined and 0 give the default
NumberOr(config, field, default) ==
  IF field \in DOMAIN config /\ config[field] # 0 THEN config[field] ELSE default

\* arrayToVec: a missing array is logged and becomes new THREE.Vector3()
ArrayToVec(config, field) ==
  IF field \in DOMAIN config
  THEN Vec3(config[field][1], config[field][2], config[field][3])
  ELSE Vec3(0, 0, 0)

\* a vecToArray that puts the components in the order x, z, y
VecToArrayXZY(vec) == <<vec.x, vec.z, vec.y>>

\* vecToArray: [vec.x, vec.y, vec.z]
VecToArray(vec) == <<vec.x, vec.y, vec.z>>

\* createFireBallEffectConfig; args holds the arguments that were passed
CreateFireBallEffectConfig(args) ==
  [startPosition |-> VecToArray(args.startPosition),
   direction |-> VecToArray(args.direction),
   speed |-> NumberOr(args, "speed", DEFAULT_SPEED),
   duration |-> NumberOr(args, "duration", DEFAULT_DURATION)]

ParseConfig(config) ==
  [startPosition |-> ArrayToVec(config, "startPosition"),
   direction |-> ArrayToVec(config, "direction"),
   speed |-> NumberOr(config, "speed", DEFAULT_SPEED),
   duration |-> NumberOr(config, "duration", DEFAULT_DURATION)]

\* !x of a THREE.Vector3: an object is never falsy
NotVec(v) == FALSE

\* !x of a number
NotNumber(n) == n = 0

\* the validation of FireBallEffectController
ConfigRejected(parsed) ==
  \/ NotVec(parsed.startPosition)
  \/ NotVec(parsed.direction)
  \/ NotNumber(parsed.speed)
  \/ NotNumber(parsed.duration)

\* calculatedStartPosition: startPosition + direction * 1
CalculatedStart(parsed) ==
  Vec3(parsed.startPosition.x + parsed.direction.x,
       parsed.startPosition.y + parsed.direction.y,
       parsed.startPosition.z + parsed.direction.z)

\* onComplete of effect key, bound by EffectContainer to
\* handleEffectComplete(effect.key), which calls removeEffect
FxOnComplete(f, key) ==
  RemoveEffect([f EXCEPT !.c[key].nComplete = @ + 1], key)

\* handleFireballEffectHit: false for the body of the sender
HandleFireballEffectHit(other) == other # "caster"

\* onIntersectionEnter of the FireBall's RigidBody
OnIntersectionEnter(f, key, other) ==
  IF HandleFireballEffectHit(other)
  THEN [FxOnComplete(f, key) EXCEPT !.c[key].nHit = @ + 1, !.c[key].pending = TRUE]
  ELSE f

RECURSIVE FxDrain(_, _, _)
FxDrain(f, key, evs) ==
  IF evs = <<>> THEN f
  ELSE FxDrain(OnIntersectionEnter(f, key, Head(evs)), key, Tail(evs))

\* the useFrame callback of FireBall key; destroyed is the rendered state
FireBallFrame(f, key) ==
  LET b == f.c[key] IN
  IF ~b.fireball \/ b.destroyed THEN f
  ELSE IF b.elapsed > b.duration
       THEN FxOnComplete([f EXCEPT !.c[key].pending = TRUE], key)
       ELSE f

RECURSIVE FxFrameAll(_, _)
FxFrameAll(f, keys) ==
  IF keys = {} THEN f
  ELSE LET k == CHOOSE x \in keys : \A y \in keys : x <= y
       IN FxFrameAll(FireBallFrame(f, k), keys \ {k})

\* FireBallEffectController rendering for effect e: parse, validate, and
\* either report completion and render null or render the FireBall at the
\* calculated start position (mounted with startTime = now when it was not
\* there; a pending setDestroyed(true) is committed when it was)
RenderController(f, e) ==
  LET parsed == ParseConfig(e.config)
      b == f.c[e.key]
  IN IF ConfigRejected(parsed)
     THEN FxOnComplete([f EXCEPT !.c[e.key] =
                          [FxNone EXCEPT !.mounted = TRUE, !.nError = b.nError + 1,
                                         !.nComplete = b.nComplete, !.nHit = b.nHit]],
                       e.key)
     ELSE IF ~b.fireball
     THEN [f EXCEPT !.c[e.key] =
             [b EXCEPT !.mounted = TRUE, !.fireball = TRUE, !.destroyed = FALSE,
                       !.pending = FALSE, !.elapsed = 0,
                       !.startPosition = CalculatedStart(parsed),
                       !.direction = parsed.direction, !.speed = parsed.speed,
                       !.duration = parsed.duration]]
     ELSE [f EXCEPT !.c[e.key].destroyed = b.destroyed \/ b.pending,
                    !.c[e.key].pending = FALSE]

\* renderEffect: only FIREBALL effects have a component
RenderEffect(f, e) ==
  IF e.type = "FIREBALL" THEN RenderController(f, e) ELSE f

RECURSIVE RenderEffects(_, _)
\* activeEffects.map(renderEffect)
RenderEffects(f, list) ==
  IF list = <<>> THEN f
  ELSE RenderEffects(RenderEffect(f, Head(list)), Tail(list))

\* EffectContainer renders the activeEffects it read from the store; the
\* components of the keys that left the list are unmounted
RenderContainer(f) ==
  LET list == f.activeEffects
      g == RenderEffects([f EXCEPT !.dirty = FALSE], list)
  IN [g EXCEPT !.c = [k \in FxKeys |->
        IF HasKey(list, k) THEN g.c[k]
        ELSE [FxNone EXCEPT !.nComplete = g.c[k].nComplete, !.nHit = g.c[k].nHit,
                            !.nError = g.c[k].nError]]]

FxBounded(f) == \A k \in FxKeys : f.c[k].nComplete <= MaxCalls

\* a caller of the store adds an effect
FxAdd ==
  \E type \in FxTypes, config \in FxConfigs :
    /\ fx.effectKeyCounter < MaxEffects
    /\ fx' = AddEffect(fx, type, config)
    /\ UNCHANGED FxOthers

\* a caller of the store alone adds an effect; the store does not look at
\* the config
FxStoreAdd ==
  \E type \in FxTypes :
    /\ fx.effectKeyCounter < MaxKeys
    /\ fx' = AddEffect(fx, type, [startPosition |-> <<0, 0, 0>>,
                                  direction |-> <<0, 0, 1>>])
    /\ UNCHANGED FxOthers

\* a caller of the store removes a key, issued or not
FxRemove ==
  \E key \in 0..MaxKeys :
    /\ fx' = RemoveEffect(fx, key)
    /\ UNCHANGED FxOthers

\* useGameServer reports the connection
FxConnect ==
  /\ ~fx.connected
  /\ fx' = [fx EXCEPT !.connected = TRUE, !.dirty = TRUE, !.last = NoCall]
  /\ UNCHANGED FxOthers

\* React renders EffectContainer after a store or state update
FxRender ==
  /\ fx.connected
  /\ fx.dirty \/ \E k \in FxKeys : fx.c[k].pending
  /\ fx' = RenderContainer([fx EXCEPT !.last = NoCall])
  /\ FxBounded(fx')
  /\ UNCHANGED FxOthers

\* time passes for the FireBalls that are mounted
FxTick ==
  /\ \E k \in FxKeys : fx.c[k].fireball /\ fx.c[k].elapsed < MaxElapsed
  /\ fx' = [fx EXCEPT !.last = NoCall,
                      !.c = [k \in FxKeys |->
                        IF fx.c[k].fireball /\ fx.c[k].elapsed < MaxElapsed
                        THEN [fx.c[k] EXCEPT !.elapsed = @ + 1] ELSE fx.c[k]]]
  /\ UNCHANGED FxOthers

\* one rendered frame: the useFrame of every mounted FireBall runs
FxFrame ==
  /\ \E k \in FxKeys : fx.c[k].fireball
  /\ fx' = FxFrameAll([fx EXCEPT !.last = NoCall], FxKeys)
  /\ FxBounded(fx')
  /\ UNCHANGED FxOthers

\* one physics step delivering evs to the sensor of FireBall key
FxPhysicsStep ==
  \E key \in FxKeys, evs \in SeqsUpTo(FxBodies, MaxEvents) \ {<<>>} :
    /\ fx.c[key].fireball /\ ~fx.c[key].destroyed
    /\ fx' = FxDrain([fx EXCEPT !.last = NoCall], key, evs)
    /\ FxBounded(fx')
    /\ UNCHANGED FxOthers

\* the store alone, called from anywhere
FxStoreNext ==
  \/ FxAdd
  \/ FxRemove

\* the pipeline as the README wires it
FxNext ==
  \/ FxAdd
  \/ FxConnect
  \/ FxRender
  \/ FxTick
  \/ FxFrame
  \/ FxPhysicsStep

(***************************************************************************)
(* BaseProjectile (tps projectiles), the body of the projectiles FireBall. *)
(* Time is counted in seconds.                                             *)
(***************************************************************************)
Lifespans == {0, 2}

\* the component after its first render and its init effect
TbStart(lifespan) ==
  [mounted |-> TRUE, isActive |-> TRUE, pending |-> FALSE, body |-> TRUE,
   enabled |-> TRUE, lifespan |-> lifespan,
   timer |-> IF lifespan # 0 THEN "armed" ELSE "none",
   deadline |-> lifespan, closureActive |-> TRUE, clock |-> 0,
   nCollision |-> 0, nRemove |-> 0]

TbOthers == <<magic, mprops, fb, proj, world, bp, fx, ps, kin, cfg, bullet, weff, met, launch>>

\* deactivateProjectile as the closure that saw isActive = seen
TbDeactivate(s, seen) ==
  IF ~seen THEN s
  ELSE [s EXCEPT !.pending = TRUE,
                 !.enabled = IF s.body THEN FALSE ELSE @,
                 !.nRemove = @ + 1]

\* handleCollision: onCollision, then deactivateProjectile
TbHandleCollision(s) ==
  TbDeactivate([s EXCEPT !.nCollision = @ + 1], s.isActive)

RECURSIVE TbDrain(_, _)
TbDrain(s, n) == IF n = 0 THEN s ELSE TbDrain(TbHandleCollision(s), n - 1)

TbBounded(s) == s.nCollision <= MaxHits /\ s.nRemove <= MaxComplete

\* one physics step delivering n enter events to the RigidBody
TbPhysicsStep ==
  \E n \in 1..MaxEvents :
    /\ tb.body /\ tb.enabled
    /\ tb' = TbDrain(tb, n)
    /\ TbBounded(tb')
    /\ UNCHANGED TbOthers

\* setTimeout(deactivateProjectile, lifespan) expiring
TbTimerFire ==
  /\ tb.timer = "armed"
  /\ tb.clock >= tb.deadline
  /\ tb' = [TbDeactivate(tb, tb.closureActive) EXCEPT !.timer = "fired"]
  /\ TbBounded(tb')
  /\ UNCHANGED TbOthers

\* React commits setIsActive(false): the component renders null, and the
\* init effect runs again because deactivateProjectile changed with
\* isActive: its cleanup clears the timeout and a new one is set
TbCommit(s) ==
  [s EXCEPT !.pending = FALSE, !.isActive = FALSE, !.body = FALSE, !.enabled = FALSE,
            !.timer = IF s.lifespan # 0 THEN "armed" ELSE "none",
            !.deadline = s.clock + s.lifespan, !.closureActive = FALSE]

TbRender ==
  /\ tb.mounted /\ tb.pending
  /\ tb' = TbCommit(tb)
  /\ UNCHANGED TbOthers

\* the owner unmounts the component: the effect cleanup clears the timeout,
\* the RigidBody leaves the physics world, queued updates are dropped
TbUnmountStep(s) ==
  [s EXCEPT !.mounted = FALSE, !.body = FALSE, !.enabled = FALSE, !.pending = FALSE,
            !.timer = IF @ = "armed" THEN "cleared" ELSE @]

TbUnmount ==
  /\ tb.mounted
  /\ tb' = TbUnmountStep(tb)
  /\ UNCHANGED TbOthers

\* time passes
TbTick ==
  /\ tb.clock < MaxClock
  /\ tb' = [tb EXCEPT !.clock = @ + 1]
  /\ UNCHANGED TbOthers

TbNext ==
  \/ TbUnmount
  \/ TbPhysicsStep
  \/ TbTimerFire
  \/ TbRender
  \/ TbTick

\* the props of the ProjectileMagic whose removal is followed
RemovalProps ==
  [piercing : {FALSE}, bouncing : {FALSE}, bounceCount : {0},
   maxDistance : {0, 3}, duration : {0, 2}, initVel : {<<0, 0, 1>>},
   homing : {FALSE}, homingTarget : {FALSE}, homingStrength : {2}]

\* the frame loop, the physics world and the timers go on around either
\* component
RemovalNext ==
  \/ MagicNext
  \/ TbNext

(***************************************************************************)
(* The projectiles list of the tps ProjectileSystem with several           *)
(* projectiles in flight, and the freeview ProjectileSystem with callbacks *)
(* that spawn.  uuidv4() ids are numbered in the order they are drawn.     *)
(***************************************************************************)
MaxPs == 3

\* the updates that may be queued when removeProjectile is called
MaxQueue == 2

PsIds == 0..(MaxPs - 1)

\* what a tick brings to one projectile: nothing, the end of its lifetime,
\* or a collision
PsFates == {"none", "end", "hit"}

PsNone == [mounted |-> FALSE, activeRef |-> FALSE]

PsStart(first) ==
  [projectiles |-> <<>>, updates |-> <<>>, nextId |-> first,
   processed |-> {}, step |-> "none", b |-> [i \in PsIds |-> PsNone]]

PsOthers == <<magic, mprops, fb, proj, world, bp, fx, tb, kin, cfg, bullet, weff, met, launch>>

\* fireProjectile: draw an id and queue the functional update that appends
PsFireProjectile(s) ==
  [s EXCEPT !.nextId = @ + 1,
            !.updates = Append(@, [op |-> "add", id |-> s.nextId,
                                   total |-> 0, speed |-> 0])]

\* removeProjectile: queue the functional update that filters id out
PsRemoveProjectile(s, id) ==
  [s EXCEPT !.updates = Append(@, [op |-> "remove", id |-> id,
                                   total |-> 0, speed |-> 0])]

\* the lifetime useFrame callback of projectile id when its lifetime is over:
\* activeRef = false, onLifetimeEnd(id), which the system binds to
\* removeProjectile
PsLifetimeEnd(s, id) ==
  PsRemoveProjectile([s EXCEPT !.b[id].activeRef = FALSE], id)

\* handleCollision of projectile id: onCollision, a callback of the caller
\* that may fire a projectile and may remove this one, then activeRef = false
PsCollision(s, id, fires, removes) ==
  LET f == IF fires /\ s.nextId < MaxPs THEN PsFireProjectile(s) ELSE s
      r == IF removes THEN PsRemoveProjectile(f, id) ELSE f
  IN [r EXCEPT !.b[id].activeRef = FALSE]

\* one tick of projectile id
PsTickOne(s, id, fate, fires, removes) ==
  IF ~s.b[id].mounted \/ ~s.b[id].activeRef THEN s
  ELSE LET t == [s EXCEPT !.processed = @ \cup {id}]
       IN IF fate = "end" THEN PsLifetimeEnd(t, id)
          ELSE IF fate = "hit" THEN PsCollision(t, id, fires, removes)
          ELSE t

RECURSIVE PsPass(_, _, _, _, _, _)
\* the projectiles of ids whose fate is (hits = TRUE) or is not
\* (hits = FALSE) a collision, in the order they were mounted
PsPass(s, ids, fates, fires, removes, hits) ==
  IF ids = {} THEN s
  ELSE LET k == CHOOSE x \in ids : \A y \in ids : x <= y
           t == IF (fates[k] = "hit") = hits
                THEN PsTickOne(s, k, fates[k], fires, removes) ELSE s
       IN PsPass(t, ids \ {k}, fates, fires, removes, hits)

\* the physics step delivers its collision events first; the useFrame
\* callbacks of the projectiles run after it, and the callback of a projectile
\* that a collision has deactivated returns at once
PsTickAll(s, ids, fates, fires, removes) ==
  PsPass(PsPass(s, ids, fates, fires, removes, TRUE),
         ids, fates, fires, removes, FALSE)

\* the mouse launcher fires between two ticks
PsFire ==
  /\ ps.nextId < MaxPs
  /\ ps' = [PsFireProjectile(ps) EXCEPT !.processed = {}, !.step = "fire"]
  /\ UNCHANGED PsOthers

\* one tick: the collision handlers of the physics step, then the frame
\* callbacks of the mounted projectiles, run before React renders again
PsTick ==
  \E fates \in [PsIds -> PsFates], fires \in BOOLEAN, removes \in BOOLEAN :
    /\ \E i \in PsIds : ps.b[i].mounted /\ ps.b[i].activeRef
    /\ ps' = PsTickAll([ps EXCEPT !.processed = {}, !.step = "tick"], PsIds,
                       fates, fires, removes)
    /\ Len(ps'.updates) <= MaxPs + 1
    /\ UNCHANGED PsOthers

\* React renders the system: the queued updaters are applied in order, the
\* projectiles that entered the list are mounted and those that left it are
\* unmounted
PsCommit(s) ==
  LET list == ApplyUpdates(s.projectiles, s.updates)
  IN [s EXCEPT !.projectiles = list, !.updates = <<>>, !.processed = {},
               !.step = "render",
               !.b = [i \in PsIds |->
                 IF ~InSeq(i, list) THEN PsNone
                 ELSE IF ~s.b[i].mounted THEN [mounted |-> TRUE, activeRef |-> TRUE]
                 ELSE s.b[i]]]

PsRender ==
  /\ ps.updates # <<>>
  /\ ps' = PsCommit(ps)
  /\ UNCHANGED PsOthers

\* removeProjectile is called, by a consumer of the context or as the
\* onLifetimeEnd of a projectile, with an id that fireProjectile has returned
\* or with one that was never issued
PsRemove ==
  \E id \in (0..(ps.nextId - 1)) \cup {MaxPs} :
    /\ Len(ps.updates) < MaxQueue
    /\ ps' = [PsRemoveProjectile(ps, id) EXCEPT !.processed = {}, !.step = "remove"]
    /\ UNCHANGED PsOthers

\* a frame of the freeview system in which the onHit and onComplete
\* callbacks of the projectiles that end call spawnProjectile
ProjFrameSpawning ==
  \E delta \in Deltas :
    /\ \E i \in PIds : proj.p[i].mounted
    /\ LET f == [proj EXCEPT !.p = [i \in PIds |-> ProjFrameStep(proj.p[i], world, delta)]]
           called == \E i \in PIds : f.p[i].nComplete > proj.p[i].nComplete
           g == IF called /\ f.nextProjectileId < MaxSpawn
                THEN SpawnProjectile(f, 2, 1) ELSE f
       IN /\ proj' = [g EXCEPT !.frameDelta = delta]
          /\ ProjBounded(proj')
    /\ UNCHANGED <<world, ProjOthers>>

\* a ProjectileMagic whose onHit callback may throw
\* ProjectileMagic under a parent that renders again, as Meteor does
RerenderNext ==
  \/ MagicNext
  \/ MagicParentRender

FaultNext ==
  \/ MagicNext
  \/ MagicPhysicsStepThrowing

\* the two lists that are filtered by key, each called from anywhere: the
\* effect store, and the list of the tps system with React around it
ListRemovalNext ==
  \/ FxStoreAdd
  \/ FxRemove
  \/ PsFire
  \/ PsRemove
  \/ PsRender

\* either system with the frames, the launcher and React around it
TickNext ==
  \/ PsFire
  \/ PsTick
  \/ PsRender
  \/ ProjSpawn
  \/ ProjFrameSpawning
  \/ ProjRender

(***************************************************************************)
(* The kinematic FireBall (example/fireball FireBall and spells/FireBall): *)
(* spawn and movement.  Date.now() is counted in milliseconds; positions   *)
(* are kept in thousandths of a unit, so that speed * (ms / 1000) is exact. *)
(***************************************************************************)
MaxMs == 1500
MaxFrames == 3

KinStarts == {<<0, 0, 0>>, <<1, 2, -3>>}
KinDirs == {<<0, 0, 1>>, <<1, 0, 0>>, <<0, 0, -1>>}
KinSpeeds == {1, 15}
KinMounts == {0, 1000}
KinSteps == {250, 500}

\* a THREE.Vector3 in thousandths
Milli(v) == <<1000 * v[1], 1000 * v[2], 1000 * v[3]>>

\* an effect or a frame callback that moves the startPosition object itself
\* (add without clone)
KinFrameStepInPlace(k) ==
  LET ms == k.now - k.startTime
      next == <<k.startPosition[1] + k.direction[1] * k.speed * ms,
                k.startPosition[2] + k.direction[2] * k.speed * ms,
                k.startPosition[3] + k.direction[3] * k.speed * ms>>
  IN [k EXCEPT !.startPosition = next, !.next = next, !.setBy = "frame",
               !.setAt = k.now, !.nFrames = @ + 1]

\* the useFrame callback: t = (Date.now() - startTime.current) / 1000,
\* next = startPosition.clone().add(direction.clone().multiplyScalar(speed * t)),
\* setNextKinematicTranslation(next)
KinFrameStep(k) ==
  LET ms == k.now - k.startTime
      next == <<k.startPosition[1] + k.direction[1] * k.speed * ms,
                k.startPosition[2] + k.direction[2] * k.speed * ms,
                k.startPosition[3] + k.direction[3] * k.speed * ms>>
  IN [k EXCEPT !.next = next, !.setBy = "frame", !.setAt = k.now, !.nFrames = @ + 1]

\* the effect: setNextKinematicTranslation(startPosition)
KinEffect(k) ==
  [k EXCEPT !.next = k.startPosition, !.setBy = "effect", !.setAt = k.now]

\* the FireBall after its first render and its effect; startTime is the
\* Date.now() of that render and the RigidBody is at its position prop
KinInit ==
  \E start \in KinStarts, dir \in KinDirs, speed \in KinSpeeds, at \in KinMounts :
    kin = KinEffect([given |-> Milli(start), startPosition |-> Milli(start),
                     direction |-> dir, speed |-> speed, startTime |-> at,
                     now |-> at, next |-> Milli(start), pos |-> Milli(start),
                     setBy |-> "effect", setAt |-> at, nFrames |-> 0])

KinOthers == <<magic, mprops, fb, proj, world, bp, fx, tb, ps, cfg, bullet, weff, met, launch>>

\* a rendered frame
KinFrame ==
  /\ kin.nFrames < MaxFrames
  /\ kin' = KinFrameStep(kin)
  /\ UNCHANGED KinOthers

\* the FireBall renders again and its effect runs again, after a frame or
\* after an earlier render
KinRerender ==
  /\ kin' = KinEffect(kin)
  /\ UNCHANGED KinOthers

\* the physics step moves the kinematic body to the translation set last
KinPhysicsStep ==
  /\ kin.pos # kin.next
  /\ kin' = [kin EXCEPT !.pos = kin.next]
  /\ UNCHANGED KinOthers

\* time passes
KinTick ==
  \E step \in KinSteps :
    /\ kin.now + step <= kin.startTime + MaxMs
    /\ kin' = [kin EXCEPT !.now = @ + step]
    /\ UNCHANGED KinOthers

KinNext ==
  \/ KinFrame
  \/ KinRerender
  \/ KinPhysicsStep
  \/ KinTick

(***************************************************************************)
(* A spawn config of example/fireball on its way from the caller to the    *)
(* controller: createFireBallEffectConfig, the store (which keeps the      *)
(* config object as it is) and parseConfig.                                *)
(***************************************************************************)
CfgCoords == {-1, 0, 2}
CfgVecs == {Vec3(x, y, z) : x \in {0, 2}, y \in {0, 2}, z \in CfgCoords}
CfgNumbers == {0, 1, 15}

\* the arguments of a call: speed and duration may be left out
CfgArgs ==
  UNION {[startPosition : CfgVecs, direction : {Vec3(0, 0, 1), Vec3(2, 0, -1)}],
         [startPosition : CfgVecs, direction : {Vec3(0, 0, 1), Vec3(2, 0, -1)},
          speed : CfgNumbers],
         [startPosition : CfgVecs, direction : {Vec3(0, 0, 1), Vec3(2, 0, -1)},
          speed : CfgNumbers, duration : CfgNumbers]}

CfgInit ==
  \E args \in CfgArgs :
    cfg = [phase |-> "args", args |-> args, config |-> <<>>, parsed |-> <<>>]

CfgOthers == <<magic, mprops, fb, proj, world, bp, fx, tb, ps, kin, bullet, weff, met, launch>>

\* the caller builds the config it hands to addEffect
CfgCreate ==
  /\ cfg.phase = "args"
  /\ cfg' = [cfg EXCEPT !.phase = "config",
                        !.config = CreateFireBallEffectConfig(cfg.args)]
  /\ UNCHANGED CfgOthers

\* the controller parses the config it got from the store
CfgParse ==
  /\ cfg.phase = "config"
  /\ cfg' = [cfg EXCEPT !.phase = "parsed", !.parsed = ParseConfig(cfg.config)]
  /\ UNCHANGED CfgOthers

CfgNext ==
  \/ CfgCreate
  \/ CfgParse

(***************************************************************************)
(* Bullet (example/fireball guide).  Time is counted in seconds.           *)
(***************************************************************************)
BulletDurations == {1, 2}

\* the Bullet after its first render and its effects; ownerRemoves tells
\* whether the owner's onComplete takes the Bullet out of the tree
BulletStart(duration, ownerRemoves) ==
  [mounted |-> TRUE, ownerRemoves |-> ownerRemoves, duration |-> duration,
   active |-> TRUE, pending |-> "none", body |-> TRUE,
   timer |-> "armed", deadline |-> duration, closureActive |-> TRUE,
   startTime |-> 0, now |-> 0, nComplete |-> 0, nHit |-> 0]

BulletInit ==
  \E duration \in BulletDurations, ownerRemoves \in BOOLEAN :
    bullet = BulletStart(duration, ownerRemoves)

BulletOthers == <<magic, mprops, fb, proj, world, bp, fx, tb, ps, kin, cfg, weff, met, launch>>

\* removeBullet as the closure that saw active = seen
RemoveBullet(s, seen) ==
  IF seen THEN [s EXCEPT !.pending = "false", !.nComplete = @ + 1] ELSE s

\* onIntersectionEnter: onHit decides (accepted) whether removeBullet runs
BulletIntersection(s, accepted) ==
  LET h == [s EXCEPT !.nHit = @ + 1]
  IN IF accepted THEN RemoveBullet(h, s.active) ELSE h

RECURSIVE BulletDrain(_, _)
BulletDrain(s, evs) ==
  IF evs = <<>> THEN s
  ELSE BulletDrain(BulletIntersection(s, Head(evs)), Tail(evs))

BulletBounded(s) == s.nComplete <= MaxComplete /\ s.nHit <= MaxHits

\* one physics step delivering intersection events to the RigidBody
BulletPhysicsStep ==
  \E evs \in SeqsUpTo(BOOLEAN, MaxEvents) \ {<<>>} :
    /\ bullet.mounted /\ bullet.body
    /\ bullet' = BulletDrain(bullet, evs)
    /\ BulletBounded(bullet')
    /\ UNCHANGED BulletOthers

\* the setTimeout callback of the mount effect
BulletTimerFire ==
  /\ bullet.mounted /\ bullet.timer = "armed"
  /\ bullet.now >= bullet.deadline
  /\ bullet' = [RemoveBullet(bullet, bullet.closureActive) EXCEPT !.timer = "fired"]
  /\ BulletBounded(bullet')
  /\ UNCHANGED BulletOthers

\* the useFrame callback: the backup check of the lifetime
BulletFrameStep(s) ==
  IF ~s.active \/ ~s.body THEN s
  ELSE IF s.now - s.startTime > s.duration THEN RemoveBullet(s, s.active)
  ELSE s

BulletFrame ==
  /\ bullet.mounted
  /\ bullet' = BulletFrameStep(bullet)
  /\ bullet' # bullet
  /\ BulletBounded(bullet')
  /\ UNCHANGED BulletOthers

\* React commits the pending setActive.  When active changed, removeBullet is
\* a new function, so the [duration, removeBullet] effect runs again: its
\* cleanup clears the timeout, and its body resets startTime, calls
\* setActive(true) and sets a new timeout
BulletCommit(s) ==
  LET a == (s.pending = "true") IN
  IF a = s.active THEN [s EXCEPT !.pending = "none"]
  ELSE [s EXCEPT !.active = a, !.body = a,
                 !.pending = IF a THEN "none" ELSE "true",
                 !.startTime = s.now,
                 !.timer = "armed", !.deadline = s.now + s.duration,
                 !.closureActive = a]

BulletRender ==
  /\ bullet.mounted /\ bullet.pending # "none"
  /\ ~(bullet.ownerRemoves /\ bullet.nComplete > 0)
  /\ bullet' = BulletCommit(bullet)
  /\ UNCHANGED BulletOthers

\* the owner's onComplete removed the effect: the render unmounts the Bullet
BulletUnmount ==
  /\ bullet.mounted /\ bullet.ownerRemoves /\ bullet.nComplete > 0
  /\ bullet' = [bullet EXCEPT !.mounted = FALSE, !.body = FALSE, !.pending = "none",
                              !.timer = IF @ = "armed" THEN "cleared" ELSE @]
  /\ UNCHANGED BulletOthers

\* time passes
BulletTick ==
  /\ bullet.mounted /\ bullet.now < MaxNow
  /\ bullet' = [bullet EXCEPT !.now = @ + 1]
  /\ UNCHANGED BulletOthers

BulletNext ==
  \/ BulletPhysicsStep
  \/ BulletTimerFire
  \/ BulletFrame
  \/ BulletRender
  \/ BulletUnmount
  \/ BulletTick

(***************************************************************************)
(* The effects list of the tps World (handleFireballHit, handleAreaDamage) *)
(* with FireBallEffect and ShaderEffect.  Date.now() is counted in units   *)
(* of 500 ms.                                                              *)
(***************************************************************************)
MaxWorldEffects == 4
MaxWorldClock == 5

WeffIds == 0..(MaxWorldEffects - 1)

\* the duration World gives the effect of a fireball hit (1000 ms) and of a
\* meteor explosion (2000 ms)
HIT_EFFECT_DURATION == 2
AREA_EFFECT_DURATION == 4

\* startTime is the Date.now() of the lifetime effect of the ShaderEffect,
\* elapsed what its updateEffect measured last
WeffNone ==
  [mounted |-> FALSE, duration |-> 0, startTime |-> 0, elapsed |-> 0,
   isVisible |-> FALSE, pending |-> FALSE, ended |-> FALSE, nComplete |-> 0]

\* effects is the list of the last render, updates the updaters queued by
\* setEffects since then
WeffInit ==
  weff = [effects |-> <<>>, updates |-> <<>>, nextId |-> 0, now |-> 0,
          e |-> [i \in WeffIds |-> WeffNone]]

WeffOthers == <<magic, mprops, fb, proj, world, bp, fx, tb, ps, kin, cfg, bullet, met, launch>>

\* setEffects((prev) => [...prev, { id, element }]): the updater is queued,
\* the element is mounted by the next render
AppendEffect(w, duration) ==
  [w EXCEPT !.updates = Append(@, [op |-> "add", id |-> w.nextId, duration |-> duration]),
            !.nextId = @ + 1]

\* the onComplete World passes: setEffects((prev) => prev.filter((e) =>
\* e.id !== id)), queued
WorldOnComplete(w, id) ==
  [w EXCEPT !.updates = Append(@, [op |-> "remove", id |-> id, duration |-> 0]),
            !.e[id].nComplete = @ + 1]

\* FireBallEffect: whether the ShaderEffect it renders gets the onComplete
\* that FireBallEffect was given.  onComplete is not among the props
\* FireBallEffect takes, and none is passed on
FireBallEffectPassesOnComplete(given) == FALSE

\* updateEffect of ShaderEffect at progress 1: no further animation frame is
\* requested, setIsVisible(false) is queued and onComplete?.() is called
ShaderEffectEnd(w, id) ==
  LET v == [w EXCEPT !.e[id].pending = TRUE, !.e[id].ended = TRUE]
  IN IF FireBallEffectPassesOnComplete(TRUE) THEN WorldOnComplete(v, id) ELSE v

\* handleFireballHit
WeffFireballHit ==
  /\ weff.nextId < MaxWorldEffects
  /\ weff' = AppendEffect(weff, HIT_EFFECT_DURATION)
  /\ UNCHANGED WeffOthers

\* handleAreaDamage
WeffAreaDamage ==
  /\ weff.nextId < MaxWorldEffects
  /\ weff' = AppendEffect(weff, AREA_EFFECT_DURATION)
  /\ UNCHANGED WeffOthers

\* updateEffect of ShaderEffect id: elapsed = Date.now() - startTime,
\* progress = Math.min(elapsed / duration, 1); below 1 the next animation
\* frame is requested, at 1 the effect ends
UpdateEffect(w, id) ==
  LET t == [w EXCEPT !.e[id].elapsed = w.now - w.e[id].startTime]
  IN IF t.e[id].elapsed < t.e[id].duration THEN t ELSE ShaderEffectEnd(t, id)

\* the animation frame that ShaderEffect id has requested: its updateEffect
\* runs, alone; the callbacks of the other effects, World's handlers and
\* React's renders come before or after it
WeffFrame ==
  \E id \in WeffIds :
    /\ weff.e[id].mounted /\ ~weff.e[id].ended
    /\ weff' = UpdateEffect(weff, id)
    /\ UNCHANGED WeffOthers

\* time passes
WeffTick ==
  /\ weff.now < MaxWorldClock
  /\ weff' = [weff EXCEPT !.now = @ + 1]
  /\ UNCHANGED WeffOthers

\* the queued updaters of setEffects applied in order to the rendered list
RECURSIVE ApplyWeffUpdates(_, _)
ApplyWeffUpdates(list, ups) ==
  IF ups = <<>> THEN list
  ELSE LET u == Head(ups)
       IN ApplyWeffUpdates(IF u.op = "add" THEN Append(list, u.id)
                           ELSE FilterOut(list, u.id), Tail(ups))

\* the duration of the element the handler made for the effect
WeffDurationOf(ups, id) ==
  LET k == CHOOSE j \in 1..Len(ups) : ups[j].op = "add" /\ ups[j].id = id
  IN ups[k].duration

\* the render: World renders the list with the queued updaters applied,
\* mounting the elements that entered it (the lifetime effect of each takes
\* startTime = Date.now() and runs updateEffect at elapsed 0, which requests
\* the first animation frame) and unmounting those that left; a ShaderEffect with a queued setIsVisible(false) renders
\* null from now on.  The elements of the list are the ones the handlers
\* made, so an effect that stays is not rendered again by World
WeffCommit(w) ==
  LET list == ApplyWeffUpdates(w.effects, w.updates)
      one(i) ==
        LET b == w.e[i] IN
        IF InSeq(i, list) /\ ~b.mounted /\ ~InSeq(i, w.effects)
          THEN [WeffNone EXCEPT !.mounted = TRUE, !.isVisible = TRUE,
                                !.duration = WeffDurationOf(w.updates, i),
                                !.startTime = w.now]
        ELSE IF ~InSeq(i, list) /\ b.mounted
          THEN [WeffNone EXCEPT !.ended = b.ended, !.nComplete = b.nComplete]
        ELSE IF b.mounted /\ b.pending
          THEN [b EXCEPT !.isVisible = FALSE, !.pending = FALSE]
        ELSE b
  IN [w EXCEPT !.effects = list, !.updates = <<>>,
               !.e = [i \in WeffIds |-> one(i)]]

WeffRender ==
  /\ weff.updates # <<>> \/ \E i \in WeffIds : weff.e[i].mounted /\ weff.e[i].pending
  /\ weff' = WeffCommit(weff)
  /\ UNCHANGED WeffOthers

WeffNext ==
  \/ WeffFireballHit
  \/ WeffAreaDamage
  \/ WeffFrame
  \/ WeffTick
  \/ WeffRender

(***************************************************************************)
(* Meteor (tps magic/spells) around its ProjectileMagic, which gets no     *)
(* piercing or bouncing prop and so takes the standard branch.  log holds  *)
(* the calls of the last physics step or timer callback, in order.         *)
(***************************************************************************)
MeteorProps ==
  [explosionRadius : {3, 5}, explosionDamage : {20, 50},
   onAreaDamage : BOOLEAN, onHit : BOOLEAN, onComplete : BOOLEAN]

MetStart(p) ==
  [props |-> p, active |-> TRUE, pending |-> FALSE, activeRef |-> TRUE,
   body |-> TRUE, enabled |-> TRUE, timer |-> "armed", magicCircleVisible |-> TRUE,
   circlePending |-> FALSE, nHits |-> 0, log |-> <<>>]

MetInit ==
  \E p \in MeteorProps : met = MetStart(p)

MetOthers == <<magic, mprops, fb, proj, world, bp, fx, tb, ps, kin, cfg, bullet, weff, launch>>

\* a call made for hit h (0 for the lifespan timer)
Call(name, h, a, b) == <<name, h, a, b>>

Logged(s, c) == [s EXCEPT !.log = Append(@, c)]

\* handleHit that forwards onHit before the area damage
MeteorHandleHitForwardFirst(s, h) ==
  LET a == IF s.props.onHit THEN Logged(s, Call("onHit", h, 0, 0)) ELSE s
  IN IF a.props.onAreaDamage
     THEN Logged(a, Call("onAreaDamage", h, a.props.explosionRadius,
                         a.props.explosionDamage))
     ELSE a

\* handleHit of Meteor: onAreaDamage(point, explosionRadius,
\* explosionDamage), then onHit(target, point, effects)
MeteorHandleHit(s, h) ==
  LET a == IF s.props.onAreaDamage
           THEN Logged(s, Call("onAreaDamage", h, s.props.explosionRadius,
                               s.props.explosionDamage))
           ELSE s
  IN IF a.props.onHit THEN Logged(a, Call("onHit", h, 0, 0)) ELSE a

\* handleComplete of Meteor: setMagicCircleVisible(false), then onComplete
MeteorHandleComplete(s, h) ==
  LET c == [s EXCEPT !.circlePending = TRUE]
  IN IF c.props.onComplete THEN Logged(c, Call("onComplete", h, 0, 0)) ELSE c

\* deactivateProjectile of the Meteor's ProjectileMagic: setActive(false),
\* rigidBodyRef.current.setEnabled(false), then onComplete
MetDeactivateProjectile(s, h) ==
  IF ~s.activeRef THEN s
  ELSE MeteorHandleComplete(
         Logged([s EXCEPT !.pending = TRUE,
                          !.enabled = IF s.body THEN FALSE ELSE @],
                Call("setActive", h, 0, 0)), h)

\* handleCollision of the Meteor's ProjectileMagic, standard branch
MetHandleCollision(s) ==
  IF ~s.activeRef THEN s
  ELSE LET h == s.nHits + 1
           c == Logged([s EXCEPT !.nHits = h], Call("handleCollision", h, 0, 0))
       IN MetDeactivateProjectile(MeteorHandleHit(c, h), h)

RECURSIVE MetDrain(_, _)
MetDrain(s, n) == IF n = 0 THEN s ELSE MetDrain(MetHandleCollision(s), n - 1)

\* a physics step delivering n events to the RigidBody; a body that is
\* disabled gets none
MetPhysicsStep ==
  \E n \in 1..MaxEvents :
    /\ met.body /\ met.enabled
    /\ met.nHits + n <= MaxHits
    /\ met' = MetDrain([met EXCEPT !.log = <<>>], n)
    /\ UNCHANGED MetOthers

\* the lifespan timer expires
MetTimerFire ==
  /\ met.timer = "armed"
  /\ met' = [MetDeactivateProjectile([met EXCEPT !.log = <<>>], 0)
               EXCEPT !.timer = "fired"]
  /\ UNCHANGED MetOthers

\* the MagicCircle effect ends: handleMagicCircleComplete
MetCircleComplete ==
  /\ met.magicCircleVisible /\ ~met.circlePending
  /\ met' = [met EXCEPT !.circlePending = TRUE]
  /\ UNCHANGED MetOthers

\* React commits the pending updates.  setMagicCircleVisible(false) while the
\* circle is visible renders the Meteor itself, with a new handleComplete, and
\* the init effect of the ProjectileMagic runs again and arms a new timer;
\* while the circle is already hidden the same value bails out: the Meteor
\* does not render, and the timer stays as it is
MetCommit(s) ==
  LET a == IF s.pending THEN FALSE ELSE s.active
      m == [s EXCEPT !.pending = FALSE, !.active = a, !.activeRef = a,
                     !.body = a, !.enabled = IF a THEN @ ELSE FALSE,
                     !.circlePending = FALSE]
  IN IF s.circlePending /\ s.magicCircleVisible
     THEN [m EXCEPT !.magicCircleVisible = FALSE, !.timer = "armed"]
     ELSE m

MetRender ==
  /\ met.pending \/ met.circlePending
  /\ met' = MetCommit(met)
  /\ UNCHANGED MetOthers

MeteorNext ==
  \/ MetPhysicsStep
  \/ MetTimerFire
  \/ MetCircleComplete
  \/ MetRender

(***************************************************************************)
(* The launchers: ProjectileControls (freeview spells/FireBall.tsx), whose *)
(* time is counted in units of 250 ms, and the FireballManager of fb.      *)
(* spawns holds the times of the spawns; for ProjectileControls presses    *)
(* counts the key presses and spawnPress holds the press of every spawn.   *)
(***************************************************************************)
\* SHOOT_COOLDOWN, 500 ms
SHOOT_COOLDOWN == 2

MaxRequests == 4

LaunchStart(which) ==
  [which |-> which, action1 |-> FALSE, actionKeyPressedLastFrame |-> FALSE,
   shootTimestamp |-> 0, now |-> 1, spawns |-> <<>>, presses |-> 0,
   spawnPress |-> <<>>, requests |-> 0]

LaunchOthers == <<magic, mprops, proj, world, bp, fx, tb, ps, kin, cfg, bullet, weff, met>>

\* a frame callback that shoots while the key is held
PcFrameStepWhileHeld(s, delta) ==
  LET now == s.now + delta
      n == [s EXCEPT !.now = now, !.actionKeyPressedLastFrame = s.action1,
                     !.requests = IF s.action1 THEN @ + 1 ELSE @]
  IN IF s.action1 /\ now > s.shootTimestamp
     THEN [n EXCEPT !.shootTimestamp = now + SHOOT_COOLDOWN,
                    !.spawns = Append(@, now),
                    !.spawnPress = Append(@, s.presses)]
     ELSE n

\* the useFrame callback of ProjectileControls, delta after the last one
PcFrameStep(s, delta) ==
  LET now == s.now + delta
      actionKeyJustPressed == s.action1 /\ ~s.actionKeyPressedLastFrame
      n == [s EXCEPT !.now = now, !.actionKeyPressedLastFrame = s.action1,
                     !.requests = IF actionKeyJustPressed THEN @ + 1 ELSE @]
  IN IF actionKeyJustPressed /\ now > s.shootTimestamp
     THEN [n EXCEPT !.shootTimestamp = now + SHOOT_COOLDOWN,
                    !.spawns = Append(@, now),
                    !.spawnPress = Append(@, s.presses)]
     ELSE n

PcFrame ==
  \E delta \in Deltas :
    /\ launch.which = "controls"
    /\ launch.now + delta <= MaxNow
    /\ launch' = PcFrameStep(launch, delta)
    /\ UNCHANGED <<fb, LaunchOthers>>

\* the action1 key goes down
PcKeyDown ==
  /\ launch.which = "controls" /\ ~launch.action1
  /\ launch.presses < MaxRequests
  /\ launch' = [launch EXCEPT !.action1 = TRUE, !.presses = @ + 1]
  /\ UNCHANGED <<fb, LaunchOthers>>

\* the action1 key goes up
PcKeyUp ==
  /\ launch.which = "controls" /\ launch.action1
  /\ launch' = [launch EXCEPT !.action1 = FALSE]
  /\ UNCHANGED <<fb, LaunchOthers>>

\* the fireballCast key goes down: castFireball of the FireballManager
LaunchCast ==
  /\ launch.which = "manager"
  /\ fb.nextId < MaxFireballs
  /\ launch.requests < MaxRequests
  /\ fb' = CastFireball(fb)
  /\ launch' = [launch EXCEPT
                  !.requests = @ + 1,
                  !.spawns = IF fb'.nextId > fb.nextId THEN Append(@, fb.now) ELSE @]
  /\ UNCHANGED LaunchOthers

CooldownNext ==
  \/ LaunchCast
  \/ FbTimeout
  \/ FbRender
  \/ FbIntersect
  \/ FbTick
  \/ PcFrame
  \/ PcKeyDown
  \/ PcKeyUp

(***************************************************************************)
(* The specifications: one component at a time, the others not mounted.    *)
(***************************************************************************)
\* one of the two launchers is mounted; a FireballManager that is not has
\* no fireballs and takes no step
InitCooldown ==
  /\ \E which \in {"manager", "controls"} :
       /\ launch = LaunchStart(which)
       /\ fb = [fireballs |-> <<>>, updates |-> <<>>,
                nextId |-> IF which = "manager" THEN 0 ELSE MaxFireballs,
                lastCastTime |-> 0,
                now |-> IF which = "manager" THEN COOLDOWN_MS ELSE MaxNow,
                ball |-> [i \in FbIds |-> FbNone]]
  /\ magic = "unmounted" /\ mprops = "none"
  /\ proj = "unmounted" /\ world = {} /\ bp = "unmounted" /\ fx = "unmounted"
  /\ tb = "unmounted" /\ ps = "unmounted" /\ kin = "unmounted"
  /\ cfg = "unmounted" /\ bullet = "unmounted" /\ weff = "unmounted"
  /\ met = "unmounted"

InitMeteor ==
  /\ MetInit
  /\ magic = "unmounted" /\ mprops = "none" /\ fb = "unmounted"
  /\ proj = "unmounted" /\ world = {} /\ bp = "unmounted" /\ fx = "unmounted"
  /\ tb = "unmounted" /\ ps = "unmounted" /\ kin = "unmounted"
  /\ cfg = "unmounted" /\ bullet = "unmounted" /\ weff = "unmounted"
  /\ launch = "unmounted"

InitMagic ==
  /\ MagicInit
  /\ fb = "unmounted" /\ proj = "unmounted" /\ world = {} /\ bp = "unmounted"
  /\ fx = "unmounted" /\ tb = "unmounted" /\ ps = "unmounted"
  /\ kin = "unmounted"
  /\ cfg = "unmounted"
  /\ bullet = "unmounted"
  /\ weff = "unmounted"
  /\ met = "unmounted"
  /\ launch = "unmounted"

InitFireball ==
  /\ FbInit
  /\ magic = "unmounted" /\ mprops = "none"
  /\ proj = "unmounted" /\ world = {} /\ bp = "unmounted" /\ fx = "unmounted"
  /\ tb = "unmounted" /\ ps = "unmounted"
  /\ kin = "unmounted"
  /\ cfg = "unmounted"
  /\ bullet = "unmounted"
  /\ weff = "unmounted"
  /\ met = "unmounted"
  /\ launch = "unmounted"

InitProjectile ==
  /\ ProjInit
  /\ magic = "unmounted" /\ mprops = "none" /\ fb = "unmounted" /\ bp = "unmounted"
  /\ fx = "unmounted" /\ tb = "unmounted" /\ ps = "unmounted"
  /\ kin = "unmounted"
  /\ cfg = "unmounted"
  /\ bullet = "unmounted"
  /\ weff = "unmounted"
  /\ met = "unmounted"
  /\ launch = "unmounted"

InitBaseProjectile ==
  /\ BpInit
  /\ magic = "unmounted" /\ mprops = "none" /\ fb = "unmounted"
  /\ proj = "unmounted" /\ world = {} /\ fx = "unmounted" /\ tb = "unmounted"
  /\ ps = "unmounted"
  /\ kin = "unmounted"
  /\ cfg = "unmounted"
  /\ bullet = "unmounted"
  /\ weff = "unmounted"
  /\ met = "unmounted"
  /\ launch = "unmounted"

InitEffectStore ==
  /\ FxInit
  /\ magic = "unmounted" /\ mprops = "none" /\ fb = "unmounted"
  /\ proj = "unmounted" /\ world = {} /\ bp = "unmounted" /\ tb = "unmounted"
  /\ ps = "unmounted"
  /\ kin = "unmounted"
  /\ cfg = "unmounted"
  /\ bullet = "unmounted"
  /\ weff = "unmounted"
  /\ met = "unmounted"
  /\ launch = "unmounted"

\* either the effect store or the tps system is in use; the other one holds
\* nothing and has no key left to give
InitListRemoval ==
  /\ \E which \in {"effects", "tps"} :
       /\ fx = [activeEffects |-> <<>>,
                effectKeyCounter |-> IF which = "effects" THEN 0 ELSE MaxKeys,
                connected |-> FALSE, dirty |-> FALSE, ret |-> -1, last |-> NoCall,
                issued |-> {}, c |-> [k \in FxKeys |-> FxNone]]
       /\ ps = [projectiles |-> <<>>, updates |-> <<>>,
                nextId |-> IF which = "tps" THEN 0 ELSE MaxPs,
                processed |-> {}, step |-> "none", b |-> [i \in PsIds |-> PsNone]]
  /\ magic = "unmounted" /\ mprops = "none" /\ fb = "unmounted"
  /\ proj = "unmounted" /\ world = {} /\ bp = "unmounted" /\ tb = "unmounted"
  /\ kin = "unmounted"
  /\ cfg = "unmounted"
  /\ bullet = "unmounted"
  /\ weff = "unmounted"
  /\ met = "unmounted"
  /\ launch = "unmounted"

InitEffects ==
  /\ FxInit
  /\ magic = "unmounted" /\ mprops = "none" /\ fb = "unmounted"
  /\ proj = "unmounted" /\ world = {} /\ bp = "unmounted" /\ tb = "unmounted"
  /\ ps = "unmounted"
  /\ kin = "unmounted"
  /\ cfg = "unmounted"
  /\ bullet = "unmounted"
  /\ weff = "unmounted"
  /\ met = "unmounted"
  /\ launch = "unmounted"

\* either a ProjectileMagic or a BaseProjectile is in the tree, the other
\* one has been unmounted
InitRemoval ==
  /\ mprops \in RemovalProps
  /\ \E lifespan \in Lifespans, which \in {"magic", "base"} :
       /\ magic = IF which = "magic" THEN MagicStart(mprops)
                  ELSE MagicUnmountStep(MagicStart(mprops))
       /\ tb = IF which = "base" THEN TbStart(lifespan)
               ELSE TbUnmountStep(TbStart(lifespan))
  /\ fb = "unmounted" /\ proj = "unmounted" /\ world = {} /\ bp = "unmounted"
  /\ fx = "unmounted" /\ ps = "unmounted"
  /\ kin = "unmounted"
  /\ cfg = "unmounted"
  /\ bullet = "unmounted"
  /\ weff = "unmounted"
  /\ met = "unmounted"
  /\ launch = "unmounted"

InitRerender ==
  /\ MagicInit
  /\ fb = "unmounted" /\ proj = "unmounted" /\ world = {} /\ bp = "unmounted"
  /\ fx = "unmounted" /\ tb = "unmounted" /\ ps = "unmounted"
  /\ kin = "unmounted" /\ cfg = "unmounted" /\ bullet = "unmounted"
  /\ weff = "unmounted"
  /\ met = "unmounted"
  /\ launch = "unmounted"

InitFault ==
  /\ mprops \in MagicProps
  /\ magic = MagicStart(mprops)
  /\ fb = "unmounted" /\ proj = "unmounted" /\ world = {} /\ bp = "unmounted"
  /\ fx = "unmounted" /\ tb = "unmounted" /\ ps = "unmounted"
  /\ kin = "unmounted"
  /\ cfg = "unmounted"
  /\ bullet = "unmounted"
  /\ weff = "unmounted"
  /\ met = "unmounted"
  /\ launch = "unmounted"

InitHoming ==
  /\ mprops \in HomingProps
  /\ magic = MagicStart(mprops)
  /\ fb = "unmounted" /\ proj = "unmounted" /\ world = {} /\ bp = "unmounted"
  /\ fx = "unmounted" /\ tb = "unmounted" /\ ps = "unmounted"
  /\ kin = "unmounted"
  /\ cfg = "unmounted"
  /\ bullet = "unmounted"
  /\ weff = "unmounted"
  /\ met = "unmounted"
  /\ launch = "unmounted"

\* either the tps system or the freeview system is in the tree; the other
\* one has no projectile and no id left to give
InitTick ==
  /\ \E which \in {"tps", "freeview"} :
       /\ ps = [projectiles |-> <<>>, updates |-> <<>>,
                nextId |-> IF which = "tps" THEN 0 ELSE MaxPs,
                processed |-> {}, step |-> "none", b |-> [i \in PsIds |-> PsNone]]
       /\ proj = [projectiles |-> <<>>, updates |-> <<>>,
                  nextProjectileId |-> IF which = "freeview" THEN 0 ELSE MaxSpawn,
                  frameDelta |-> 0, p |-> [i \in PIds |-> PNone]]
  /\ world \in SUBSET (1..MaxCoord)
  /\ magic = "unmounted" /\ mprops = "none" /\ fb = "unmounted" /\ bp = "unmounted"
  /\ fx = "unmounted" /\ tb = "unmounted"
  /\ kin = "unmounted"
  /\ cfg = "unmounted"
  /\ bullet = "unmounted"
  /\ weff = "unmounted"
  /\ met = "unmounted"
  /\ launch = "unmounted"

InitKinematic ==
  /\ KinInit
  /\ magic = "unmounted" /\ mprops = "none" /\ fb = "unmounted"
  /\ proj = "unmounted" /\ world = {} /\ bp = "unmounted" /\ fx = "unmounted"
  /\ tb = "unmounted" /\ ps = "unmounted"
  /\ cfg = "unmounted"
  /\ bullet = "unmounted"
  /\ weff = "unmounted"
  /\ met = "unmounted"
  /\ launch = "unmounted"

InitConfig ==
  /\ CfgInit
  /\ magic = "unmounted" /\ mprops = "none" /\ fb = "unmounted"
  /\ proj = "unmounted" /\ world = {} /\ bp = "unmounted" /\ fx = "unmounted"
  /\ tb = "unmounted" /\ ps = "unmounted" /\ kin = "unmounted"
  /\ bullet = "unmounted"
  /\ weff = "unmounted"
  /\ met = "unmounted"
  /\ launch = "unmounted"

InitBullet ==
  /\ BulletInit
  /\ magic = "unmounted" /\ mprops = "none" /\ fb = "unmounted"
  /\ proj = "unmounted" /\ world = {} /\ bp = "unmounted" /\ fx = "unmounted"
  /\ tb = "unmounted" /\ ps = "unmounted" /\ kin = "unmounted" /\ cfg = "unmounted"
  /\ weff = "unmounted"
  /\ met = "unmounted"
  /\ launch = "unmounted"

InitWorldEffects ==
  /\ WeffInit
  /\ magic = "unmounted" /\ mprops = "none" /\ fb = "unmounted"
  /\ proj = "unmounted" /\ world = {} /\ bp = "unmounted" /\ fx = "unmounted"
  /\ tb = "unmounted" /\ ps = "unmounted" /\ kin = "unmounted" /\ cfg = "unmounted"
  /\ bullet = "unmounted"
  /\ met = "unmounted"
  /\ launch = "unmounted"

InitSweep ==
  /\ BpTimedInit
  /\ magic = "unmounted" /\ mprops = "none" /\ fb = "unmounted"
  /\ proj = "unmounted" /\ world = {} /\ fx = "unmounted" /\ tb = "unmounted"
  /\ ps = "unmounted" /\ kin = "unmounted" /\ cfg = "unmounted"
  /\ bullet = "unmounted" /\ weff = "unmounted"
  /\ met = "unmounted"
  /\ launch = "unmounted"

SpecMagic == InitMagic /\ [][MagicNext]_vars

SpecHoming == InitHoming /\ [][MagicNext]_vars

SpecFault == InitFault /\ [][FaultNext]_vars

SpecCooldown == InitCooldown /\ [][CooldownNext]_vars

SpecMeteor == InitMeteor /\ [][MeteorNext]_vars

SpecRerender == InitRerender /\ [][RerenderNext]_vars

SpecFireball == InitFireball /\ [][FbNext]_vars

\* timers expire, React renders and the clock keeps running
SpecFireballFair ==
  /\ SpecFireball
  /\ WF_vars(FbTimeout) /\ WF_vars(FbRender) /\ WF_vars(FbTick)

SpecProjectile == InitProjectile /\ [][ProjNext]_vars

SpecBaseProjectile == InitBaseProjectile /\ [][BpNext]_vars

SpecSweep == InitSweep /\ [][SweepNext]_vars

SpecRemoval == InitRemoval /\ [][RemovalNext]_vars

SpecTick == InitTick /\ [][TickNext]_vars

SpecKinematic == InitKinematic /\ [][KinNext]_vars

SpecConfig == InitConfig /\ [][CfgNext]_vars

SpecBullet == InitBullet /\ [][BulletNext]_vars

SpecWorldEffects == InitWorldEffects /\ [][WeffNext]_vars

SpecEffectStore == InitEffectStore /\ [][FxStoreNext]_vars

SpecListRemoval == InitListRemoval /\ [][ListRemovalNext]_vars

SpecEffects == InitEffects /\ [][FxNext]_vars

\* frames, renders and the clock keep running, and the server connects
SpecEffectsFair ==
  /\ SpecEffects
  /\ WF_vars(FxConnect) /\ WF_vars(FxRender) /\ WF_vars(FxTick) /\ WF_vars(FxFrame)

(***************************************************************************)
(* Properties.                                                             *)
(***************************************************************************)

\* C1: a ProjectileMagic with duration > 0 invokes onComplete exactly once
\* over any interleaving of collision events, the lifespan timer, the
\* maxDistance check and handle.deactivate(): never twice, and once the
\* timer has fired it has been invoked.
C1_ExactlyOneCompletion ==
  (mprops.duration > 0 /\ magic.nActivate = 0) =>
    /\ magic.nComplete <= 1
    /\ (magic.timer = "fired" => magic.nComplete = 1)

\* C2: of N >= 2 collision events delivered to a standard (non-piercing,
\* non-bouncing) ProjectileMagic in one tick, exactly one is processed:
\* onHit is invoked exactly once in that tick.
C2_OneHitPerTick ==
  (~mprops.piercing /\ ~mprops.bouncing /\ magic.tick.delivered >= 2) =>
    magic.tick.onHit = 1

\* C3: the active state of a ProjectileMagic is monotonic: once inactive it
\* never becomes active again, and once it has been deactivated no further
\* onHit or onComplete is produced.
C3_ActiveMonotonic ==
  [][/\ (~magic.active => ~magic'.active)
     /\ (magic.nComplete >= 1 =>
           magic'.nComplete = magic.nComplete /\ magic'.nHit = magic.nHit)]_vars

\* C4: a freeview FireBall whose duration has elapsed without a hit has
\* reported completion exactly once and has been removed from the
\* manager's fireballs list.
C4_TimeoutCompletes ==
  \A id \in FbIds :
    (fb.ball[id].timedOut /\ ~fb.ball[id].showExplosion) =>
      /\ fb.ball[id].nComplete = 1
      /\ ~InSeq(id, fb.fireballs)

\* C5: once React has rendered every queued update, the projectiles list
\* of the freeview ProjectileSystem holds only projectiles that have not
\* completed.
C5_CompletedRemoved ==
  (proj.updates = <<>> /\ \A i \in PIds : ~proj.p[i].pending) =>
    \A i \in PIds : InSeq(i, proj.projectiles) => proj.p[i].nComplete = 0

\* C6: a tps BaseProjectile that has left the ProjectileSystem has invoked
\* onLifetimeEnd exactly once, whether it ended by lifetime or by collision,
\* and never invokes it twice.
C6_OneLifetimeEnd ==
  /\ bp.nLifetimeEnd <= 1
  /\ (bp.nFired > 0 /\ ~bp.inList /\ bp.updates = <<>>) => bp.nLifetimeEnd = 1

\* C7: a freeview Projectile never passes a collider on its path: it is never
\* beyond a collider, and when it has hit, onHit got the nearest collider's
\* point and the projectile stays at that point.
C7_NoPassWithoutHit ==
  \A i \in PIds :
    LET b == proj.p[i] IN
    /\ \A o \in world : b.pos <= o
    /\ b.nHit >= 1 => (b.hitPos \in world /\ b.pos = b.hitPos
                        /\ \A o \in world : b.hitPos <= o)

PLive(b) == b.mounted /\ b.active /\ b.group

\* C8: a freeview Projectile never overshoots: its position is always between
\* startPosition and endPosition, and in a frame where the accumulated travel
\* would reach or exceed totalDistance it is put at endPosition and retired
\* (setActive(false), onComplete) in that frame without integrating further.
C8_NoOvershoot ==
  /\ [](\A i \in PIds : 0 <= proj.p[i].pos /\ proj.p[i].pos <= proj.p[i].total)
  /\ [][\A i \in PIds :
          LET b == proj.p[i]
              c == proj'.p[i]
          IN (/\ proj'.frameDelta > 0
              /\ PLive(b)
              /\ b.dist + b.speed * proj'.frameDelta >= b.total) =>
               /\ c.pos = b.total
               /\ c.pending
               /\ c.nComplete = b.nComplete + 1
               /\ c.dist = b.dist
               /\ c.nHit = b.nHit]_vars

\* C9: a piercing ProjectileMagic is never consumed by a hit and never
\* applies onHit to the same target more than once.
C9_PiercingNoRepeat ==
  mprops.piercing =>
    /\ magic.nConsumed = 0
    /\ \A t \in Targets : magic.hits[t] <= 1

Neg(v) == <<-v[1], -v[2], -v[3]>>

\* C10: a bouncing, non-piercing ProjectileMagic with bounceCount = k applies
\* onHit on every delivered hit, its bounce counter grows by one per bounce
\* and never exceeds k, a bounce reverses its velocity, and a hit consumes it
\* only once the k bounces are used up.
C10_Bouncing ==
  /\ []((mprops.bouncing /\ ~mprops.piercing) =>
          magic.bounceCountRef <= mprops.bounceCount)
  /\ [][(mprops.bouncing /\ ~mprops.piercing) =>
          /\ magic'.tick.onHit = magic'.tick.delivered
          /\ magic'.bounceCountRef >= magic.bounceCountRef
          /\ magic'.bounceCountRef - magic.bounceCountRef <= magic'.tick.delivered
          /\ (magic'.bounceCountRef = magic.bounceCountRef + 1 /\ magic'.tick.delivered = 1)
               => magic'.vel = Neg(magic.vel)
          /\ magic'.nConsumed > magic.nConsumed =>
               magic'.bounceCountRef = mprops.bounceCount]_vars

\* C11: in every frame in which the homing step of a ProjectileMagic runs,
\* the velocity written back has the magnitude of the velocity read, and the
\* step changes neither the active state nor the hit and bounce bookkeeping.
C11_HomingPreservesSpeed ==
  [][magic'.tick.homed =>
       /\ SqLen(magic'.vel) = SqLen(magic.vel)
       /\ magic'.active = magic.active
       /\ magic'.activeRef = magic.activeRef
       /\ magic'.pending = magic.pending
       /\ magic'.bounceCountRef = magic.bounceCountRef
       /\ magic'.hits = magic.hits
       /\ magic'.nHit = magic.nHit
       /\ magic'.nComplete = magic.nComplete]_vars

\* C12: a freeview Projectile invokes onComplete at most once and onHit at
\* most once, also when frames run between the frame that retires it and the
\* render that commits active = false.
C12_CompleteOnce ==
  \A i \in PIds : proj.p[i].nComplete <= 1 /\ proj.p[i].nHit <= 1

HasFireball(list, key) ==
  \E i \in 1..Len(list) : list[i].key = key /\ list[i].type = "FIREBALL"

\* C13: every FIREBALL effect added with addEffect is eventually removed from
\* activeEffects, onComplete is invoked at most once per effect, and an
\* effect that has been removed had its onComplete invoked exactly once.
C13_EffectsRemoved ==
  /\ \A k \in FxKeys :
       HasFireball(fx.activeEffects, k) ~> ~HasKey(fx.activeEffects, k)
  /\ [](\A k \in FxKeys : fx.c[k].nComplete <= 1)
  /\ [](\A k \in FxKeys :
         (k \in fx.issued /\ ~HasKey(fx.activeEffects, k)) => fx.c[k].nComplete = 1)

\* C14: when the sensor of a freeview FireBall enters another body (onHit
\* absent or returning true), the hit is registered in that step
\* (setActive(false), explosion shown), the fireball then completes, and
\* onComplete is invoked at most once.
C14_HitRegistered ==
  /\ [][\A id \in FbIds :
          (~fb.ball[id].intersected /\ fb'.ball[id].intersected) =>
            (fb'.ball[id].pending /\ fb'.ball[id].showExplosion)]_vars
  /\ \A id \in FbIds :
       fb.ball[id].intersected ~> (fb.ball[id].nComplete = 1 /\ ~fb.ball[id].mounted)
  /\ [](\A id \in FbIds : fb.ball[id].nComplete <= 1)

\* a config that lacks startPosition or direction, has a zero-length
\* direction, or has speed <= 0
InvalidConfig(config) ==
  \/ "startPosition" \notin DOMAIN config
  \/ "direction" \notin DOMAIN config
  \/ config.direction = ZeroVel
  \/ ("speed" \in DOMAIN config /\ config.speed <= 0)

\* C15: a FIREBALL effect whose config is invalid never gets a FireBall
\* entity, and once its controller has rendered it has logged the error and
\* invoked onComplete.
C15_InvalidRejected ==
  \A i \in 1..Len(fx.activeEffects) :
    LET e == fx.activeEffects[i] IN
    (e.type = "FIREBALL" /\ InvalidConfig(e.config)) =>
      /\ ~fx.c[e.key].fireball
      /\ fx.c[e.key].mounted => (fx.c[e.key].nError >= 1 /\ fx.c[e.key].nComplete >= 1)

\* C16: in the effect store the keys of activeEffects are pairwise distinct,
\* every key issued is below effectKeyCounter, addEffect returns the key of
\* the effect it appended, that key was never issued before, and the counter
\* never decreases.
C16_KeysUnique ==
  /\ [](/\ \A i, j \in 1..Len(fx.activeEffects) :
             i # j => fx.activeEffects[i].key # fx.activeEffects[j].key
        /\ \A k \in fx.issued : k < fx.effectKeyCounter
        /\ \A i \in 1..Len(fx.activeEffects) : fx.activeEffects[i].key \in fx.issued)
  /\ [][/\ fx'.effectKeyCounter >= fx.effectKeyCounter
        /\ fx'.last.op = "add" =>
             /\ fx'.ret = fx'.activeEffects[Len(fx'.activeEffects)].key
             /\ Len(fx'.activeEffects) = Len(fx.activeEffects) + 1
             /\ fx'.ret \notin fx.issued]_vars

\* an effect is added after an earlier key has been removed
C16_Witness ==
  /\ fx.last.op = "add" /\ fx.ret = 1
  /\ 0 \in fx.issued /\ ~HasKey(fx.activeEffects, 0)

RECURSIVE Without(_, _)
\* list with the entries of key k left out, the others in their order
Without(list, k) ==
  IF list = <<>> THEN <<>>
  ELSE IF Head(list).key = k THEN Without(Tail(list), k)
  ELSE <<Head(list)>> \o Without(Tail(list), k)

\* a comes before b in list
Precedes(list, a, b) ==
  \E i, j \in 1..Len(list) : i < j /\ list[i] = a /\ list[j] = b

\* the ids the queued updates ups remove
RemovedIds(ups) == {ups[k].id : k \in {n \in 1..Len(ups) : ups[n].op = "remove"}}

\* after is before less exactly the entries whose removal is queued in ups:
\* the other entries of before are all there, once each and in the order
\* they had, and when none of the removed ids is in before and nothing is
\* added, after is before
RemovedExactly(before, ups, after) ==
  /\ \A x \in 0..MaxPs :
       InSeq(x, before) => (InSeq(x, after) <=> x \notin RemovedIds(ups))
  /\ \A x \in RemovedIds(ups) : ~InSeq(x, after)
  /\ \A i, j \in 1..Len(after) : i # j => after[i] # after[j]
  /\ \A a, b \in 0..MaxPs :
       (InSeq(a, before) /\ InSeq(b, before) /\ InSeq(a, after) /\ InSeq(b, after))
         => (Precedes(after, a, b) <=> Precedes(before, a, b))
  /\ ((\A k \in 1..Len(ups) : ups[k].op = "remove")
       /\ (\A x \in RemovedIds(ups) : ~InSeq(x, before))) => after = before

\* C17: removeEffect(k) leaves effectKeyCounter unchanged; for a key that is
\* not in activeEffects (never issued or already removed) it leaves
\* activeEffects unchanged, and for a present key it deletes exactly that
\* entry and keeps the other entries and their order.  removeProjectile(id)
\* of the tps ProjectileSystem changes nothing but the queue of updates, and
\* the render that applies the queue deletes exactly the entries whose
\* removal was queued, keeps the other entries and their order, and leaves
\* the list as it was when every id removed is absent.
C17_RemoveLocal ==
  [][/\ fx'.last.op = "remove" =>
          /\ fx'.effectKeyCounter = fx.effectKeyCounter
          /\ fx'.issued = fx.issued
          /\ ~HasKey(fx.activeEffects, fx'.last.key) =>
               fx'.activeEffects = fx.activeEffects
          /\ fx'.activeEffects = Without(fx.activeEffects, fx'.last.key)
          /\ HasKey(fx.activeEffects, fx'.last.key) =>
               Len(fx'.activeEffects) = Len(fx.activeEffects) - 1
     /\ (ps'.step = "remove" /\ ps' # ps) =>
          /\ ps'.projectiles = ps.projectiles
          /\ ps'.nextId = ps.nextId
          /\ ps'.b = ps.b
          /\ Len(ps'.updates) = Len(ps.updates) + 1
     /\ (ps.updates # <<>> /\ ps'.updates = <<>>) =>
          RemovedExactly(ps.projectiles, ps.updates, ps'.projectiles)]_vars

\* the middle one of three effects is removed: the two others remain, in
\* their order
C17_Witness ==
  /\ fx.last = [op |-> "remove", key |-> 1]
  /\ fx.issued = {0, 1, 2}
  /\ Len(fx.activeEffects) = 2
  /\ fx.activeEffects[1].key = 0 /\ fx.activeEffects[2].key = 2

\* C18: the distanceTraveled of a freeview Projectile never decreases from
\* frame to frame and, after every frame, is the length of the path the
\* projectile has gone from startPosition to where it is, the frame of a hit
\* included.
C18_DistanceIsPath ==
  /\ [](\A i \in PIds : proj.p[i].dist = proj.p[i].path)
  /\ [][\A i \in PIds : proj.p[i].mounted => proj'.p[i].dist >= proj.p[i].dist]_vars

\* a ProjectileMagic with maxDistance and duration set that reaches the
\* distance cap before its duration is over, is not hit and is left alone
\* by the handle
CapFirst ==
  /\ mprops.maxDistance # 0 /\ mprops.duration # 0
  /\ Speed(mprops.initVel) * mprops.duration > mprops.maxDistance
  /\ magic.nHit = 0 /\ magic.nByHandle = 0 /\ magic.nActivate = 0

\* C19: a ProjectileMagic that reaches its distance cap first is retired by
\* the distance check in the first frame in which the accumulated distance
\* is at least maxDistance, exactly once, and the lifespan timer causes no
\* completion.
C19_RetiredByDistance ==
  CapFirst =>
    /\ magic.dist >= mprops.maxDistance => magic.nByDistance >= 1
    /\ magic.nByTimer = 0
    /\ magic.nComplete <= 1

\* C20: once a ProjectileMagic or a tps BaseProjectile has been unmounted by
\* its owner, its lifespan timer is not pending, and no later step invokes
\* one of its callbacks or changes its state: only time passes.
C20_RemovalCancels ==
  /\ [](/\ ~magic.mounted => magic.timer # "armed"
        /\ ~tb.mounted => tb.timer # "armed")
  /\ [][/\ ~magic.mounted => magic' = [magic EXCEPT !.clock = magic'.clock]
        /\ ~tb.mounted => tb' = [tb EXCEPT !.clock = tb'.clock]]_vars

\* a ProjectileMagic was unmounted while its lifespan timer was pending, and
\* the time at which the timer would have expired has passed
C20_Witness ==
  /\ ~magic.mounted /\ magic.timer = "cleared"
  /\ mprops.duration # 0 /\ magic.clock > mprops.duration
  /\ magic.nComplete = 0

Added(ups, i) == \E k \in 1..Len(ups) : ups[k].op = "add" /\ ups[k].id = i

Removed(ups, i) == \E k \in 1..Len(ups) : ups[k].op = "remove" /\ ups[k].id = i

\* the ids of list are in the order in which they were issued
InIssueOrder(list) == \A a, b \in 1..Len(list) : a < b => list[a] < list[b]

\* list after the queued updates ups: what was there or was added, less what
\* was removed, in insertion order
TookEffect(before, ups, after, ids) ==
  /\ \A i \in ids :
       InSeq(i, after) <=> ((InSeq(i, before) \/ Added(ups, i)) /\ ~Removed(ups, i))
  /\ InIssueOrder(after)

\* C21: a tick processes exactly the projectiles that were in the rendered
\* set when it began: a spawn or removal issued during the tick changes
\* neither the list nor the mounted set, a spawned projectile is queued and
\* not processed in that tick, and the next render applies every queued spawn
\* and removal, keeping insertion order.
C21_SpawnNextTick ==
  [][/\ ps'.step = "tick" =>
          /\ ps'.projectiles = ps.projectiles
          /\ \A i \in PsIds : ps'.b[i].mounted = ps.b[i].mounted
          /\ ps'.processed = {i \in PsIds : ps.b[i].mounted /\ ps.b[i].activeRef}
          /\ \A i \in ps.nextId..(ps'.nextId - 1) :
               i \notin ps'.processed /\ Added(ps'.updates, i)
     /\ (ps.updates # <<>> /\ ps'.updates = <<>>) =>
          /\ TookEffect(ps.projectiles, ps.updates, ps'.projectiles, PsIds)
          /\ \A i \in PsIds : ps'.b[i].mounted <=> InSeq(i, ps'.projectiles)
     /\ proj'.frameDelta > 0 =>
          /\ proj'.projectiles = proj.projectiles
          /\ \A i \in PIds :
               /\ proj'.p[i].mounted = proj.p[i].mounted
               /\ ~proj.p[i].mounted => proj'.p[i] = proj.p[i]
          /\ \A i \in proj.nextProjectileId..(proj'.nextProjectileId - 1) :
               Added(proj'.updates, i)
     /\ (proj.updates # <<>> /\ proj'.updates = <<>>) =>
          /\ TookEffect(proj.projectiles, proj.updates, proj'.projectiles, PIds)
          /\ \A i \in PIds : proj'.p[i].mounted <=> InSeq(i, proj'.projectiles)]_vars

\* in one tick of the tps system the lifetime of projectile 0 ended (a
\* removal) and the collision callback of projectile 1 fired projectile 2 (a
\* spawn) and removed projectile 1; the collision is handled first
C21_Witness ==
  /\ ps.step = "tick" /\ ps.processed = {0, 1}
  /\ ps.projectiles = <<0, 1>>
  /\ Len(ps.updates) = 3
  /\ ps.updates[1].op = "add" /\ ps.updates[1].id = 2
  /\ ps.updates[2].op = "remove" /\ ps.updates[2].id = 1
  /\ ps.updates[3].op = "remove" /\ ps.updates[3].id = 0

\* C22: when the onHit callback of a standard ProjectileMagic throws while a
\* collision is handled, the projectile is still deactivated and completes
\* in that step, it never completes twice, and every event of the step is
\* delivered.
C22_FaultIsolated ==
  /\ [][(~mprops.piercing /\ ~mprops.bouncing /\ magic'.tick.threw) =>
          /\ magic'.pending = "false"
          /\ ~magic'.enabled
          /\ magic'.nComplete = magic.nComplete + 1]_vars
  /\ []((~mprops.piercing /\ ~mprops.bouncing /\ magic.tick.threw) =>
          magic.nComplete = 1)

\* C23: in every frame the translation a kinematic FireBall sets is the given
\* startPosition plus direction * speed * elapsed seconds since mount, whatever
\* frames, renders and physics steps ran before and wherever the body is; at
\* elapsed 0 it is the given startPosition, and the startPosition it was given
\* is never changed.
C23_PositionOfElapsed ==
  /\ [](kin.startPosition = kin.given)
  /\ [][kin'.nFrames # kin.nFrames =>
          /\ kin'.setBy = "frame" /\ kin'.setAt = kin.now
          /\ \A i \in 1..3 :
               kin'.next[i] = kin.given[i]
                              + kin.direction[i] * kin.speed
                                * (kin.now - kin.startTime)
          /\ kin.now = kin.startTime => kin'.next = kin.given]_vars

\* a third frame, 750 ms after mount and after frames at other times, of a
\* FireBall that does not start at the origin
C23_Witness ==
  /\ kin.setBy = "frame" /\ kin.nFrames = 3
  /\ kin.setAt - kin.startTime = 750
  /\ kin.given = <<1000, 2000, -3000>> /\ kin.speed = 15
  /\ kin.direction = <<0, 0, -1>>
  /\ kin.next = <<1000, 2000, -14250>>

\* a number that was passed and is positive
Given(args, field) == field \in DOMAIN args /\ args[field] > 0

\* C24: a spawn config round-trips through its wire form: for every
\* startPosition and direction and every speed > 0 and duration > 0,
\* parseConfig(createFireBallEffectConfig(...)) gives them back, the wire form
\* carries both vectors as 3-element arrays [x, y, z], and a speed or duration
\* that was left out comes back as the default.
C24_ConfigRoundTrip ==
  /\ cfg.phase # "args" =>
       /\ Len(cfg.config.startPosition) = 3 /\ Len(cfg.config.direction) = 3
       /\ cfg.config.startPosition =
            <<cfg.args.startPosition.x, cfg.args.startPosition.y, cfg.args.startPosition.z>>
       /\ cfg.config.direction =
            <<cfg.args.direction.x, cfg.args.direction.y, cfg.args.direction.z>>
  /\ cfg.phase = "parsed" =>
       /\ cfg.parsed.startPosition = cfg.args.startPosition
       /\ cfg.parsed.direction = cfg.args.direction
       /\ Given(cfg.args, "speed") => cfg.parsed.speed = cfg.args.speed
       /\ Given(cfg.args, "duration") => cfg.parsed.duration = cfg.args.duration
       /\ "speed" \notin DOMAIN cfg.args => cfg.parsed.speed = DEFAULT_SPEED
       /\ "duration" \notin DOMAIN cfg.args => cfg.parsed.duration = DEFAULT_DURATION

\* a config with a speed and without a duration has been created and parsed
C24_Witness ==
  /\ cfg.phase = "parsed"
  /\ cfg.args.startPosition = Vec3(2, 0, -1) /\ cfg.args.direction = Vec3(2, 0, -1)
  /\ "speed" \in DOMAIN cfg.args /\ cfg.args.speed = 15
  /\ "duration" \notin DOMAIN cfg.args
  /\ cfg.parsed.speed = 15 /\ cfg.parsed.duration = DEFAULT_DURATION

\* C25: once a Bullet is inactive it does not become active again while it
\* stays mounted, and it invokes onComplete at most once.
C25_BulletMonotonic ==
  /\ [][(bullet.mounted /\ ~bullet.active /\ bullet'.mounted) => ~bullet'.active]_vars
  /\ [](bullet.nComplete <= 1)

\* the tps World has rendered every queued update
WeffSettled ==
  /\ weff.updates = <<>>
  /\ \A i \in WeffIds : ~weff.e[i].pending

\* C26: once the tps World has rendered its queued updates, every effect it
\* appended to its effects list is out of the list when it has ended, the
\* effects that have not ended are still in it, and when all effects have
\* ended the list is empty.
C26_EffectsRemoved ==
  WeffSettled =>
    /\ \A i \in WeffIds :
         /\ weff.e[i].ended => ~InSeq(i, weff.effects)
         /\ (i < weff.nextId /\ ~weff.e[i].ended) => InSeq(i, weff.effects)
    /\ (\A i \in WeffIds : i < weff.nextId => weff.e[i].ended) => weff.effects = <<>>

\* C27: the backup sweep of the tps ProjectileSystem removes an entry only
\* when its age has reached the maximum lifetime, never while the
\* projectile's own lifetime has not elapsed, and once React has rendered
\* what was queued no entry is in the list longer than the maximum lifetime
\* plus one cleanupInterval.
C27_LifetimeBeforeSweep ==
  /\ [][bp'.nSwept > bp.nSwept =>
          /\ bp'.age >= SweepLifetime
          /\ bp'.age >= bp.lifetime]_vars
  /\ []((bp.inList /\ bp.updates = <<>>) =>
          bp.age <= SweepLifetime + CLEANUP_INTERVAL)

\* C28: the lifespan timer of a ProjectileMagic is armed for mount time plus
\* duration and stays so, and onCast has been invoked exactly once, however
\* often the parent renders again with new callback identities.
C28_DeadlineFixedAtMount ==
  /\ magic.nCast = 1
  /\ magic.timer = "armed" => magic.armedAt = 0
  /\ magic.nByTimer > 0 => magic.armedAt = 0

CallsOf(name, h) == {i \in DOMAIN met.log : met.log[i][1] = name /\ met.log[i][2] = h}

Before(A, B) == \A i \in A, j \in B : i < j

\* C29: for every hit the Meteor's ProjectileMagic processes, onAreaDamage is
\* invoked exactly once, with the configured explosionRadius and
\* explosionDamage, before onHit is forwarded, and onHit is invoked before
\* the deactivation (setActive(false)) and onComplete of that hit.
C29_PayloadBeforeRetirement ==
  \A h \in 1..met.nHits :
    CallsOf("handleCollision", h) # {} =>
      /\ Cardinality(CallsOf("onAreaDamage", h)) = IF met.props.onAreaDamage THEN 1 ELSE 0
      /\ Cardinality(CallsOf("onHit", h)) = IF met.props.onHit THEN 1 ELSE 0
      /\ \A i \in CallsOf("onAreaDamage", h) :
           /\ met.log[i][3] = met.props.explosionRadius
           /\ met.log[i][4] = met.props.explosionDamage
      /\ Before(CallsOf("onAreaDamage", h), CallsOf("onHit", h))
      /\ Before(CallsOf("onAreaDamage", h) \cup CallsOf("onHit", h),
                CallsOf("setActive", h) \cup CallsOf("onComplete", h))
      /\ Before(CallsOf("setActive", h), CallsOf("onComplete", h))

\* a hit whose three callbacks were all given and all called
C29_Witness ==
  /\ CallsOf("onAreaDamage", 1) # {}
  /\ CallsOf("onHit", 1) # {}
  /\ CallsOf("onComplete", 1) # {}

\* the cooldown of the mounted launcher and the time its frame or key
\* handler reads in the step
CooldownOf(which) == IF which = "manager" THEN COOLDOWN_MS ELSE SHOOT_COOLDOWN

Apart(times, d) ==
  \A i, j \in DOMAIN times : i < j => times[j] - times[i] >= d

\* C30: two spawns of one launcher are at least its cooldown apart; a cast
\* request made less than the cooldown after the last spawn spawns nothing
\* and leaves the end of the cooldown where it was; ProjectileControls
\* spawns at most once per key press.
C30_CooldownEnforced ==
  /\ [](Apart(launch.spawns, CooldownOf(launch.which)))
  /\ [](\A i, j \in DOMAIN launch.spawnPress :
          i # j => launch.spawnPress[i] # launch.spawnPress[j])
  /\ [][(/\ launch'.requests > launch.requests
         /\ launch.spawns # <<>>
         /\ (IF launch.which = "manager" THEN fb.now ELSE launch'.now)
              - launch.spawns[Len(launch.spawns)] < CooldownOf(launch.which))
        => /\ launch'.spawns = launch.spawns
           /\ launch'.shootTimestamp = launch.shootTimestamp
           /\ fb'.lastCastTime = fb.lastCastTime]_vars

\* ProjectileControls has spawned twice and refused a request
C30_Witness ==
  /\ launch.which = "controls"
  /\ Len(launch.spawns) >= 2
  /\ launch.requests > Len(launch.spawns)

====
